---- MODULE Spec2Model ----
(***************************************************************************)
(* jsrs: lowering of a JavaScript AST to Rust text (src/rust/mod.rs) and   *)
(* the dynamic-value runtime the emitted code runs against                 *)
(* (src/rust/output_prelude.rs).                                           *)
(*                                                                         *)
(* Two state machines share the runtime definitions:                       *)
(*   Spec      a client driving the runtime's operations on JsValue        *)
(*             handles (new_array, from_entries, get_prop, set_prop)       *)
(*   SpecProg  node_to_rust_text lowering a program statement by           *)
(*             statement, followed by the execution of the emitted main()  *)
(***************************************************************************)
EXTENDS Integers, Sequences, FiniteSets, TLC

VARIABLES
    heap,      \* the JsObject allocations: Seq of JsObjectContents
    status,    \* "running" | "panicked" | "done" | "rejected" (rustc refuses the emitted text)
    born,      \* Spec: for each allocation, the element count it was created with
    last,      \* the runtime operation performed last: its receiver and outcome
    program,   \* the AST handed to node_to_rust_text
    pos,       \* index of the next statement of program.body to lower, 0 before the first push
    result,    \* node_to_rust_text's local `result`: the items pushed so far
    output,    \* what node_to_rust_text returned (NoOutput until it returns)
    phase,     \* "api" (Spec) | "lowering" | "aborted" | "lowered" | "exec"
    env,       \* execution: the local bindings of main(), innermost last
    control,   \* execution: the statements of main() still to run
    trace,     \* execution: the calls into impl JsValue made so far
    scenario   \* which program of the family below was handed to the lowering

vars ==
    <<heap, born, status, last, program, pos, result, output, phase, env, control, trace,
      scenario>>

(***************************************************************************)
(* Bounds of the model                                                     *)
(***************************************************************************)
MaxObjects == 1     \* objects a client of the runtime allocates
MaxLen == 2         \* elements of an array the client builds
MaxProps == 1       \* properties the client puts in the property tables
MaxLit == 2         \* the numeric literals 0 .. MaxLit of the programs
MaxN == 3           \* the loop bounds 0 .. MaxN of the programs

(***************************************************************************)
(* f64.  A double is modelled as an extended rational <<n, d>> in lowest   *)
(* terms with d >= 0: d = 0 stands for +inf (n = 1), -inf (n = -1) and     *)
(* NaN (n = 0).  Rounding to 53 bits and the sign of zero are not          *)
(* modelled.                                                               *)
(***************************************************************************)
Abs(n) == IF n < 0 THEN -n ELSE n

Sign(n) == IF n < 0 THEN -1 ELSE IF n > 0 THEN 1 ELSE 0

RECURSIVE Gcd(_, _)
Gcd(a, b) == IF b = 0 THEN a ELSE Gcd(b, a % b)

F64(n, d) ==
    IF d = 0 THEN <<Sign(n), 0>>
    ELSE LET g == Gcd(Abs(n), Abs(d))
         IN  <<(Sign(d) * n) \div g, Abs(d) \div g>>

NAN == <<0, 0>>

INFINITY == <<1, 0>>

IsNaN(a) == a = NAN

IsFinite(a) == a[2] # 0

\* `==` on f64: NaN is not equal to itself
FEq(a, b) == ~IsNaN(a) /\ ~IsNaN(b) /\ a = b

FNeg(a) == <<-a[1], a[2]>>

FAdd(a, b) ==
    IF IsNaN(a) \/ IsNaN(b) THEN NAN
    ELSE IF a[2] = 0 /\ b[2] = 0 THEN (IF a = b THEN a ELSE NAN)
    ELSE IF a[2] = 0 THEN a
    ELSE IF b[2] = 0 THEN b
    ELSE F64(a[1] * b[2] + b[1] * a[2], a[2] * b[2])

FSub(a, b) == FAdd(a, FNeg(b))

FMul(a, b) ==
    IF IsNaN(a) \/ IsNaN(b) THEN NAN
    ELSE F64(a[1] * b[1], a[2] * b[2])

FRecip(a) ==
    IF IsNaN(a) THEN NAN
    ELSE IF a[2] = 0 THEN <<0, 1>>
    ELSE IF a[1] = 0 THEN INFINITY
    ELSE F64(Sign(a[1]) * a[2], Abs(a[1]))

FDiv(a, b) == FMul(a, FRecip(b))

FLess(a, b) ==
    IF IsNaN(a) \/ IsNaN(b) THEN FALSE
    ELSE IF a[2] = 0 /\ b[2] = 0 THEN a[1] < b[1]
    ELSE a[1] * b[2] < b[1] * a[2]

\* f64::round: to the nearest integer, halves away from zero
FRound(a) ==
    IF a[2] = 0 THEN a
    ELSE LET m == (2 * Abs(a[1]) + a[2]) \div (2 * a[2])
         IN  <<Sign(a[1]) * m, 1>>

\* `index as usize`: truncating and saturating (NaN and negatives give 0).
\* +inf saturates to usize::MAX, which lies outside every Vec: it is
\* represented by `beyond`, the first index past the Vec at hand.
AsUsize(a, beyond) ==
    IF IsNaN(a) THEN 0
    ELSE IF a[2] = 0 THEN (IF a[1] > 0 THEN beyond ELSE 0)
    ELSE IF a[1] < 0 THEN 0
    ELSE a[1] \div a[2]

(***************************************************************************)
(* JsValue                                                                 *)
(***************************************************************************)
Null == [t |-> "Null", v |-> 0]

Undefined == [t |-> "Undefined", v |-> 0]

Boolean(b) == [t |-> "Boolean", v |-> b]

Number(f) == [t |-> "Number", v |-> f]

String(s) == [t |-> "String", v |-> s]

Object(id) == [t |-> "Object", v |-> id]

\* impl From<usize> for JsValue
FromUsize(n) == Number(<<n, 1>>)

(***************************************************************************)
(* format!("{val}") of an f64 and of a bool                                *)
(***************************************************************************)
Digit(d) ==
    CASE d = 0 -> "0" [] d = 1 -> "1" [] d = 2 -> "2" [] d = 3 -> "3"
      [] d = 4 -> "4" [] d = 5 -> "5" [] d = 6 -> "6" [] d = 7 -> "7"
      [] d = 8 -> "8" [] d = 9 -> "9"

RECURSIVE NatToStr(_)
NatToStr(n) == IF n < 10 THEN Digit(n) ELSE NatToStr(n \div 10) \o Digit(n % 10)

\* the fraction digits of r/d (r < d), at most k of them
RECURSIVE FracDigits(_, _, _)
FracDigits(r, d, k) ==
    IF r = 0 \/ k = 0 THEN ""
    ELSE Digit((10 * r) \div d) \o FracDigits((10 * r) % d, d, k - 1)

FormatF64(a) ==
    IF IsNaN(a) THEN "NaN"
    ELSE IF a[2] = 0 THEN (IF a[1] > 0 THEN "inf" ELSE "-inf")
    ELSE LET m == Abs(a[1])
             int == NatToStr(m \div a[2])
             frac == FracDigits(m % a[2], a[2], 17)
             sgn == IF a[1] < 0 THEN "-" ELSE ""
         IN  IF frac = "" THEN sgn \o int ELSE sgn \o int \o "." \o frac

FormatBool(b) == IF b THEN "true" ELSE "false"

to_js_string(self) ==
    CASE self.t = "Null" -> "null"
      [] self.t = "Undefined" -> "undefined"
      [] self.t = "Boolean" -> FormatBool(self.v)
      [] self.t = "Number" -> FormatF64(self.v)
      [] self.t = "String" -> self.v
      [] self.t = "Object" -> "[object Object]"

(***************************************************************************)
(* JsObjectContents and the constructors of JsValue                        *)
(***************************************************************************)
NoProperties == [k \in {} |-> Undefined]

NoFunc == [name |-> "none", num |-> NAN]

JsObjectContents(properties, subtype, array, func) ==
    [properties |-> properties, subtype |-> subtype, array |-> array, func |-> func]

\* the outcome of a runtime operation: the value returned, or a panic, and
\* the heap it leaves
Ok(val, h) == [ok |-> TRUE, val |-> val, heap |-> h, msg |-> ""]

Panic(msg, h) == [ok |-> FALSE, val |-> Undefined, heap |-> h, msg |-> msg]

Alloc(h, contents) == Ok(Object(Len(h) + 1), Append(h, contents))

new_array(h, elements) ==
    Alloc(h, JsObjectContents(NoProperties, "Array", elements, NoFunc))

new_function(h, func) ==
    Alloc(h, JsObjectContents(NoProperties, "Function", <<>>, func))

\* HashMap::from(entries): a later entry with the same key replaces an earlier one
RECURSIVE HashMapFrom(_)
HashMapFrom(entries) ==
    IF entries = <<>> THEN NoProperties
    ELSE LET n == Len(entries)
             rest == HashMapFrom(SubSeq(entries, 1, n - 1))
             key == entries[n][1]
         IN  [k \in DOMAIN rest \cup {key} |-> IF k = key THEN entries[n][2] ELSE rest[k]]

from_entries(h, entries) ==
    Alloc(h, JsObjectContents(HashMapFrom(entries), "RegularObject", <<>>, NoFunc))

(***************************************************************************)
(* impl JsValue: operators                                                 *)
(***************************************************************************)
\* the closures |a, b| a + b, a - b, a * b, a / b handed to do_binary_operation_nums
Operation(operation, a, b) ==
    CASE operation = "+" -> FAdd(a, b)
      [] operation = "-" -> FSub(a, b)
      [] operation = "*" -> FMul(a, b)
      [] operation = "/" -> FDiv(a, b)

\* do_binary_operation_nums with a non-Number operand taken as 0
do_binary_operation_lenient(h, self, other, operation) ==
    LET a == IF self.t = "Number" THEN self.v ELSE <<0, 1>>
        b == IF other.t = "Number" THEN other.v ELSE <<0, 1>>
    IN  Ok(Number(Operation(operation, a, b)), h)

do_binary_operation_nums(h, self, other, operation) ==
    IF self.t = "Number" /\ other.t = "Number"
    THEN Ok(Number(Operation(operation, self.v, other.v)), h)
    ELSE Panic("not implemented", h)

add(h, self, other) == do_binary_operation_nums(h, self, other, "+")

sub(h, self, other) == do_binary_operation_nums(h, self, other, "-")

mult(h, self, other) == do_binary_operation_nums(h, self, other, "*")

divide(h, self, other) == do_binary_operation_nums(h, self, other, "/")

less(h, self, other) ==
    IF self.t = "Number" /\ other.t = "Number"
    THEN Ok(Boolean(FLess(self.v, other.v)), h)
    ELSE Panic("not implemented", h)

truthy(self) ==
    CASE self.t = "Undefined" -> FALSE
      [] self.t = "Null" -> FALSE
      [] self.t = "Boolean" -> self.v
      [] self.t = "Number" -> ~FEq(self.v, <<0, 1>>)
      [] self.t = "String" -> self.v = ""
      [] self.t = "Object" -> TRUE

falsy(self) == ~truthy(self)

(***************************************************************************)
(* impl JsValue: get_prop and set_prop                                     *)
(***************************************************************************)
\* array[index]: Vec indexing panics past the end (index is 0-based)
VecIndex(h, array, index) ==
    IF index < Len(array) THEN Ok(array[index + 1], h)
    ELSE Panic("index out of bounds", h)

\* get_prop on JsValue::Object(obj)
get_prop_object(h, self, name) ==
    LET obj == h[self.v] IN
    IF obj.subtype = "Array" THEN
        CASE name.t = "Number" ->
                IF ~FEq(name.v, FRound(name.v))
                THEN Panic("assertion left == right failed", h)
                ELSE VecIndex(h, obj.array, AsUsize(name.v, Len(obj.array)))
          [] name.t = "String" /\ name.v = "length" ->
                Ok(FromUsize(Len(obj.array)), h)
          [] OTHER -> Panic("not implemented", h)
    ELSE LET key == to_js_string(name) IN
         Ok(IF key \in DOMAIN obj.properties THEN obj.properties[key] ELSE Undefined, h)

\* get_prop on JsValue::Number(num)
get_prop_number(h, self, name) ==
    IF name.t # "String" THEN Panic("not implemented", h)
    ELSE IF name.v = "toFixed"
    THEN new_function(h, [name |-> "toFixed", num |-> self.v])
    ELSE Panic("not implemented", h)

get_prop_lenient(h, self, name) ==
    CASE self.t = "Object" -> get_prop_object(h, self, name)
      [] self.t = "Number" -> get_prop_number(h, self, name)
      [] self.t = "Undefined" /\ name.t = "String" ->
            Panic("Cannot read properties of undefined", h)
      [] OTHER -> Ok(Undefined, h)

get_prop(h, self, name) ==
    CASE self.t = "Undefined" ->
            Panic("Cannot read properties of undefined, reading '"
                      \o to_js_string(name) \o "'", h)
      [] self.t = "Object" -> get_prop_object(h, self, name)
      [] self.t = "Number" -> get_prop_number(h, self, name)
      [] OTHER -> Panic("not implemented", h)

VecStoreOneBased(h, id, index, value) ==
    IF index < Len(h[id].array)
    THEN Ok(Undefined, [h EXCEPT ![id].array = [@ EXCEPT ![IF index = 0 THEN 1 ELSE index] = value]])
    ELSE Panic("index out of bounds", h)

VecStoreGrowing(h, id, index, value) ==
    IF index < Len(h[id].array)
    THEN Ok(Undefined, [h EXCEPT ![id].array = [@ EXCEPT ![index + 1] = value]])
    ELSE Ok(Undefined, [h EXCEPT ![id].array = Append(@, value)])

\* array[index] = value on the Vec of object id: no growth, a panic past the end
VecStore(h, id, index, value) ==
    IF index < Len(h[id].array)
    THEN Ok(Undefined, [h EXCEPT ![id].array = [@ EXCEPT ![index + 1] = value]])
    ELSE Panic("index out of bounds", h)

\* an insert that keeps the value of a key already present
PropertiesInsertOnce(h, id, key, value) ==
    LET p == h[id].properties IN
    Ok(Undefined,
       [h EXCEPT ![id].properties =
           [k \in DOMAIN p \cup {key} |-> IF k \in DOMAIN p THEN p[k] ELSE value]])

\* obj.properties.insert(key, value)
PropertiesInsert(h, id, key, value) ==
    LET p == h[id].properties IN
    Ok(Undefined,
       [h EXCEPT ![id].properties =
           [k \in DOMAIN p \cup {key} |-> IF k = key THEN value ELSE p[k]]])

set_prop(h, self, name, value) ==
    IF self.t = "Object" THEN
        LET obj == h[self.v] IN
        IF obj.subtype = "Array" THEN
            IF name.t = "Number" THEN
                IF ~FEq(name.v, FRound(name.v))
                THEN Panic("assertion left == right failed", h)
                ELSE VecStore(h, self.v, AsUsize(name.v, Len(obj.array)), value)
            ELSE Panic("not implemented", h)
        ELSE PropertiesInsert(h, self.v, to_js_string(name), value)
    ELSE Panic("not implemented", h)

(***************************************************************************)
(* The built-in bindings: thread_local CONSOLE_OBJ, PROCESS_OBJ, MATH_OBJ  *)
(***************************************************************************)
\* std::env::args() of the run of the emitted program, after "node"
EnvArgs == <<"main">>

ConsoleLogId == 1

ProcessArgvId == 2

MathSqrtId == 3

BuiltinHeap ==
    << JsObjectContents(NoProperties, "Function", <<>>, [name |-> "console.log", num |-> NAN]),
       JsObjectContents(NoProperties, "Array",
                        [i \in 1..(1 + Len(EnvArgs)) |->
                            String(IF i = 1 THEN "node" ELSE EnvArgs[i - 1])], NoFunc),
       JsObjectContents(NoProperties, "Function", <<>>, [name |-> "Math.sqrt", num |-> NAN]) >>

console == [log |-> Object(ConsoleLogId)]

process == [argv |-> Object(ProcessArgvId)]

\* std::f64::consts::PI, to the precision the rational model carries
math == [PI |-> Number(<<355, 113>>), sqrt |-> Object(MathSqrtId)]

(***************************************************************************)
(* The AST the front end supplies (oxc), as far as the lowering looks at   *)
(* it.  An Option is a sequence of length 0 or 1.                          *)
(***************************************************************************)
Identifier(name) == [type |-> "Identifier", name |-> name]

NumericLiteral(value) == [type |-> "NumericLiteral", value |-> value]

StringLiteral(value) == [type |-> "StringLiteral", value |-> value]

BooleanLiteral(value) == [type |-> "BooleanLiteral", value |-> value]

NullLiteral == [type |-> "NullLiteral"]

BinaryExpression(operator, left, right) ==
    [type |-> "BinaryExpression", operator |-> operator, left |-> left, right |-> right]

UnaryExpression(operator, argument) ==
    [type |-> "UnaryExpression", operator |-> operator, argument |-> argument]

AssignmentTargetIdentifier(name) == [type |-> "AssignmentTargetIdentifier", name |-> name]

UpdateExpression(operator, prefix, argument) ==
    [type |-> "UpdateExpression", operator |-> operator, prefix |-> prefix,
     argument |-> argument]

AssignmentExpression(operator, left, right) ==
    [type |-> "AssignmentExpression", operator |-> operator, left |-> left, right |-> right]

StaticMemberExpression(object, property) ==
    [type |-> "StaticMemberExpression", object |-> object, property |-> property]

ComputedMemberExpression(object, expression) ==
    [type |-> "ComputedMemberExpression", object |-> object, expression |-> expression]

CallExpression(callee, arguments) ==
    [type |-> "CallExpression", callee |-> callee, arguments |-> arguments]

ArrayExpression(elements) == [type |-> "ArrayExpression", elements |-> elements]

ObjectProperty(keytype, key, value) ==
    [type |-> "ObjectProperty", keytype |-> keytype, key |-> key, value |-> value]

ObjectExpression(properties) == [type |-> "ObjectExpression", properties |-> properties]

ParenthesizedExpression(expression) ==
    [type |-> "ParenthesizedExpression", expression |-> expression]

FormalParameter(patternkind, name) == [kind |-> patternkind, name |-> name]

FunctionDeclaration(name, params, body) ==
    [type |-> "FunctionDeclaration", name |-> name, params |-> params, body |-> body]

ReturnStatement(argument) == [type |-> "ReturnStatement", argument |-> argument]

VariableDeclarator(kind, idkind, id, init) ==
    [kind |-> kind, idkind |-> idkind, id |-> id, init |-> init]

VariableDeclaration(declarations) ==
    [type |-> "VariableDeclaration", declarations |-> declarations]

ForStatement(init, test, update, body) ==
    [type |-> "ForStatement", init |-> init, test |-> test, update |-> update, body |-> body]

BlockStatement(body) == [type |-> "BlockStatement", body |-> body]

ExpressionStatement(expression) ==
    [type |-> "ExpressionStatement", expression |-> expression]

\* the statements statement_to_rust_text has no arm for
WhileStatement(test, body) == [type |-> "WhileStatement", test |-> test, body |-> body]

IfStatement(test, consequent) ==
    [type |-> "IfStatement", test |-> test, consequent |-> consequent]

Program(body) == [type |-> "Program", body |-> body]

(***************************************************************************)
(* The emitted Rust text, as the syntax tree rustc reads from it.  Each    *)
(* format! template of mod.rs is one constructor application below.  ABORT *)
(* is the lowering having panicked (unimplemented!, unreachable!, unwrap,  *)
(* assert!): a text with an aborted part is never completed.               *)
(***************************************************************************)
ABORT == [k |-> "ABORT"]

Aborted(texts) == \E i \in 1..Len(texts) : texts[i] = ABORT

RPath(name) == [k |-> "path", name |-> name]

RLit(text) == [k |-> "lit", text |-> text]

RStr(text) == [k |-> "str", text |-> text]

RCast(e, ty) == IF e = ABORT THEN ABORT ELSE [k |-> "cast", e |-> e, ty |-> ty]

RParen(e) == IF e = ABORT THEN ABORT ELSE [k |-> "paren", e |-> e]

RMethodCall(recv, method, args) ==
    IF recv = ABORT \/ method = "ABORT" \/ Aborted(args) THEN ABORT
    ELSE [k |-> "mcall", recv |-> recv, method |-> method, args |-> args]

RCall(callee, args) ==
    IF callee = ABORT \/ Aborted(args) THEN ABORT
    ELSE [k |-> "call", callee |-> callee, args |-> args]

RField(e, field) == IF e = ABORT THEN ABORT ELSE [k |-> "field", e |-> e, field |-> field]

RSliceRef(elements) ==
    IF Aborted(elements) THEN ABORT ELSE [k |-> "sliceref", elements |-> elements]

RVec(elements) == IF Aborted(elements) THEN ABORT ELSE [k |-> "vec", elements |-> elements]

REntry(key, value) == IF value = ABORT THEN ABORT ELSE [k |-> "entry", key |-> key, value |-> value]

RArray(elements) ==
    IF Aborted(elements) THEN ABORT ELSE [k |-> "array", elements |-> elements]

RAssign(target, source) ==
    IF source = ABORT THEN ABORT ELSE [k |-> "assign", target |-> target, source |-> source]

RBlock(stmts, tail) ==
    IF Aborted(stmts) \/ tail = ABORT THEN ABORT
    ELSE [k |-> "block", stmts |-> stmts, tail |-> tail]

RLet(mutable, name, init) ==
    IF Aborted(init) THEN ABORT
    ELSE [k |-> "let", mutable |-> mutable, name |-> name, init |-> init]

RLetClosure(name, params, body) ==
    IF name = "ABORT" \/ (\E i \in 1..Len(params) : params[i] = "ABORT") \/ Aborted(body)
    THEN ABORT
    ELSE [k |-> "letclosure", name |-> name, params |-> params, body |-> body]

RExprStmt(e) == IF e = ABORT THEN ABORT ELSE [k |-> "expr", e |-> e]

RReturn(e) == IF Aborted(e) THEN ABORT ELSE [k |-> "return", e |-> e]

RIfBreak(cond) == IF cond = ABORT THEN ABORT ELSE [k |-> "ifbreak", cond |-> cond]

RLoop(body) == IF Aborted(body) THEN ABORT ELSE [k |-> "loop", body |-> body]

RBlockStmt(body) == IF Aborted(body) THEN ABORT ELSE [k |-> "blockstmt", body |-> body]

(***************************************************************************)
(* src/rust/mod.rs: the lowering                                           *)
(***************************************************************************)
\* binary_operator_to_rust_text with the arm of Subtraction naming the method
\* of Addition
binary_operator_confused(operator) ==
    CASE operator = "Addition" -> "add"
      [] operator = "Subtraction" -> "add"
      [] operator = "Division" -> "divide"
      [] operator = "LessThan" -> "less"
      [] operator = "Multiplication" -> "mult"
      [] OTHER -> "ABORT"

binary_operator_to_rust_text(operator) ==
    CASE operator = "Addition" -> "add"
      [] operator = "Subtraction" -> "sub"
      [] operator = "Division" -> "divide"
      [] operator = "LessThan" -> "less"
      [] operator = "Multiplication" -> "mult"
      [] OTHER -> "ABORT"

unary_operator_to_rust_text(operator) ==
    CASE operator = "UnaryNegation" -> "negate"
      [] operator = "UnaryPlus" -> "plus"
      [] OTHER -> "ABORT"

binding_pattern_to_rust_text(pattern) ==
    IF pattern.kind = "BindingIdentifier" THEN pattern.name ELSE "ABORT"

\* JsValue::Number(1.0), the step of an update expression
NumberOne == RCall(RPath("JsValue::Number"), <<RLit("1.0")>>)

update_expression_to_rust_text(expression) ==
    IF expression.argument.type # "AssignmentTargetIdentifier" THEN ABORT
    ELSE LET name == expression.argument.name
             method == IF expression.operator = "Decrement" THEN "sub" ELSE "add"
             rebind == RExprStmt(RAssign(name, RMethodCall(RPath(name), method, <<NumberOne>>)))
         IN  IF expression.prefix
             THEN RBlock(<<rebind>>, RPath(name))
             ELSE RBlock(<<RLet(FALSE, "tmp", <<RMethodCall(RParen(RPath(name)), "clone", <<>>)>>),
                           rebind>>,
                         RPath("tmp"))

RECURSIVE is_callee_an_object(_)
is_callee_an_object(callee) ==
    CASE callee.type \in {"FunctionExpression", "Identifier", "ArrowFunctionExpression"} ->
            "false"
      [] callee.type \in {"ArrayExpression", "CallExpression", "ChainExpression",
                          "ThisExpression", "ComputedMemberExpression",
                          "StaticMemberExpression"} ->
            "true"
      [] callee.type = "ParenthesizedExpression" -> is_callee_an_object(callee.expression)
      [] OTHER -> "ABORT"

RECURSIVE expression_to_rust_text(_)
RECURSIVE assignment_expression_to_rust_text(_)
RECURSIVE computed_member_read_to_rust_text(_)
RECURSIVE computed_member_write_to_rust_text(_, _)
RECURSIVE static_member_read_to_rust_text(_)
RECURSIVE static_member_write_to_rust_text(_, _)

\* JsValue::from("{prop_name}")
PropNameValue(prop_name) == RCall(RPath("JsValue::from"), <<RStr(prop_name)>>)

computed_member_read_to_rust_text(exp) ==
    LET object == expression_to_rust_text(exp.object)
        prop_name_value == expression_to_rust_text(exp.expression)
    IN  RMethodCall(object, "get_prop",
                    <<RMethodCall(RParen(prop_name_value), "clone", <<>>)>>)

computed_member_write_to_rust_text(exp, value_expr) ==
    LET object == expression_to_rust_text(exp.object)
        prop_name_value == expression_to_rust_text(exp.expression)
    IN  RMethodCall(object, "set_prop",
                    <<RMethodCall(RParen(prop_name_value), "clone", <<>>), value_expr>>)

static_member_read_to_rust_text(exp) ==
    LET prop_name == exp.property
        object == exp.object
    IN  IF object.type = "Identifier" /\ object.name = "Math" /\ prop_name = "PI"
        THEN RField(RCall(RPath("math"), <<>>), "PI")
        ELSE IF object.type = "Identifier" /\ object.name = "Math" /\ prop_name = "sqrt"
        THEN RField(RCall(RPath("math"), <<>>), "sqrt")
        ELSE IF object.type = "Identifier" /\ object.name = "process" /\ prop_name = "argv"
        THEN RField(RCall(RPath("process"), <<>>), "argv")
        ELSE IF object.type = "Identifier" /\ object.name = "console" /\ prop_name = "log"
        THEN RField(RCall(RPath("console"), <<>>), "log")
        ELSE RMethodCall(expression_to_rust_text(object), "get_prop",
                         <<PropNameValue(prop_name)>>)

static_member_write_to_rust_text(exp, value_expr) ==
    RMethodCall(expression_to_rust_text(exp.object), "set_prop",
                <<PropNameValue(exp.property), value_expr>>)

\* assignment_expression_to_rust_text with the -= of the identifier arm
\* accepted on a static member as well
assignment_expression_member_sub(exp) ==
    LET source == expression_to_rust_text(exp.right)
        operator == exp.operator
    IN  CASE exp.left.type = "AssignmentTargetIdentifier" ->
                LET target == exp.left.name
                    compound ==
                        CASE operator = "Assign" -> source
                          [] operator = "Addition" -> RMethodCall(RPath(target), "add", <<source>>)
                          [] operator = "Subtraction" -> RMethodCall(RPath(target), "sub", <<source>>)
                          [] operator = "Division" -> RMethodCall(RPath(target), "div", <<source>>)
                          [] operator = "Multiplication" -> RMethodCall(RPath(target), "mult", <<source>>)
                          [] OTHER -> ABORT
                IN  RAssign(target, compound)
          [] exp.left.type = "StaticMemberExpression" ->
                LET member_read == static_member_read_to_rust_text(exp.left)
                    compound ==
                        CASE operator = "Assign" -> source
                          [] operator = "Addition" -> RMethodCall(member_read, "add", <<source>>)
                          [] operator = "Subtraction" -> RMethodCall(member_read, "sub", <<source>>)
                          [] OTHER -> ABORT
                IN  static_member_write_to_rust_text(exp.left, compound)
          [] exp.left.type = "ComputedMemberExpression" ->
                IF operator # "Assign" THEN ABORT
                ELSE computed_member_write_to_rust_text(exp.left, source)
          [] OTHER -> ABORT

assignment_expression_to_rust_text(exp) ==
    LET source == expression_to_rust_text(exp.right)
        operator == exp.operator
    IN  CASE exp.left.type = "AssignmentTargetIdentifier" ->
                LET target == exp.left.name
                    compound ==
                        CASE operator = "Assign" -> source
                          [] operator = "Addition" -> RMethodCall(RPath(target), "add", <<source>>)
                          [] operator = "Subtraction" -> RMethodCall(RPath(target), "sub", <<source>>)
                          [] operator = "Division" -> RMethodCall(RPath(target), "div", <<source>>)
                          [] operator = "Multiplication" -> RMethodCall(RPath(target), "mult", <<source>>)
                          [] OTHER -> ABORT
                IN  RAssign(target, compound)
          [] exp.left.type = "StaticMemberExpression" ->
                LET member_read == static_member_read_to_rust_text(exp.left)
                    compound ==
                        CASE operator = "Assign" -> source
                          [] operator = "Addition" -> RMethodCall(member_read, "add", <<source>>)
                          [] OTHER -> ABORT
                IN  static_member_write_to_rust_text(exp.left, compound)
          [] exp.left.type = "ComputedMemberExpression" ->
                IF operator # "Assign" THEN ABORT
                ELSE computed_member_write_to_rust_text(exp.left, source)
          [] OTHER -> ABORT

Cloned(text) == RMethodCall(RParen(text), "clone", <<>>)

\* a call's arguments: arg.as_expression().unwrap() panics on a spread element
LowerArguments(arguments) ==
    [i \in 1..Len(arguments) |->
        IF arguments[i].type = "SpreadElement" THEN ABORT
        ELSE Cloned(expression_to_rust_text(arguments[i]))]

\* an array literal's elements: as_expression().unwrap() panics on a spread
\* element and on an elision
LowerElements(elements) ==
    [i \in 1..Len(elements) |->
        IF elements[i].type \in {"SpreadElement", "Elision"} THEN ABORT
        ELSE expression_to_rust_text(elements[i])]

ObjectEntry(entry) ==
    IF entry.type # "ObjectProperty" \/ entry.keytype # "StaticIdentifier" THEN ABORT
    ELSE REntry(entry.key, expression_to_rust_text(entry.value))

expression_to_rust_text(expression) ==
    CASE expression.type = "AssignmentExpression" ->
            assignment_expression_to_rust_text(expression)
      [] expression.type = "BinaryExpression" ->
            LET left == expression_to_rust_text(expression.left)
                right == expression_to_rust_text(expression.right)
                op == binary_operator_to_rust_text(expression.operator)
            IN  RMethodCall(RParen(left), op, <<Cloned(right)>>)
      [] expression.type = "UnaryExpression" ->
            LET op == unary_operator_to_rust_text(expression.operator)
                argument == expression_to_rust_text(expression.argument)
            IN  IF op = "ABORT" THEN ABORT ELSE RCall(RPath(op), <<argument>>)
      [] expression.type = "StaticMemberExpression" ->
            static_member_read_to_rust_text(expression)
      [] expression.type = "ComputedMemberExpression" ->
            computed_member_read_to_rust_text(expression)
      [] expression.type = "NumericLiteral" ->
            RCall(RPath("JsValue::Number"), <<RCast(RLit(FormatF64(expression.value)), "f64")>>)
      [] expression.type = "ObjectExpression" ->
            RCall(RPath("JsValue::from_entries"),
                  <<RArray([i \in 1..Len(expression.properties) |->
                               ObjectEntry(expression.properties[i])])>>)
      [] expression.type = "CallExpression" ->
            LET callee == expression_to_rust_text(expression.callee)
                arguments == LowerArguments(expression.arguments)
                is_object == is_callee_an_object(expression.callee)
            IN  IF callee = ABORT \/ Aborted(arguments) \/ is_object = "ABORT" THEN ABORT
                ELSE IF is_object = "true"
                THEN RMethodCall(RParen(callee), "call", <<RSliceRef(arguments)>>)
                ELSE RCall(callee, arguments)
      [] expression.type = "ArrayExpression" ->
            RCall(RPath("JsValue::new_array"), <<RVec(LowerElements(expression.elements))>>)
      [] expression.type = "UpdateExpression" ->
            update_expression_to_rust_text(expression)
      [] expression.type = "Identifier" -> RPath(expression.name)
      [] expression.type = "ParenthesizedExpression" ->
            RParen(expression_to_rust_text(expression.expression))
      [] OTHER -> ABORT

variable_declaration_to_rust_text(declaration) ==
    [i \in 1..Len(declaration.declarations) |->
        LET d == declaration.declarations[i] IN
        IF d.kind \notin {"const", "let"} \/ d.idkind # "BindingIdentifier" THEN ABORT
        ELSE RLet(d.kind = "let", d.id,
                  IF d.init = <<>> THEN <<>> ELSE <<expression_to_rust_text(d.init[1])>>)]

\* return JsValue::Undefined; the statement that ends every emitted closure
ReturnUndefined == RReturn(<<RPath("JsValue::Undefined")>>)

\* the for statement with its update ahead of its body
ForLoopUpdateFirst(init, test, body, update) == init \o <<RLoop(test \o update \o body)>>

\* format!("{init}\nloop {{\n{test}\n{body}\n{update}}}")
ForLoop(init, test, body, update) == init \o <<RLoop(test \o body \o update)>>

\* a statement without an arm that is passed over in silence
UnimplementedStatementSkipped(statement) == <<>>

\* _ => unimplemented!("{:#?}", statement)
UnimplementedStatement(statement) == <<ABORT>>

RECURSIVE statement_to_rust_text(_)
RECURSIVE StatementsToRustText(_)
\* statements.iter().map(statement_to_rust_text).join("\n")
StatementsToRustText(statements) ==
    IF statements = <<>> THEN <<>>
    ELSE statement_to_rust_text(Head(statements)) \o StatementsToRustText(Tail(statements))

statement_to_rust_text(statement) ==
    CASE statement.type = "FunctionDeclaration" ->
            LET params == [i \in 1..Len(statement.params) |->
                              binding_pattern_to_rust_text(statement.params[i])]
                body == StatementsToRustText(statement.body)
            IN  <<RLetClosure(statement.name, params, body \o <<ReturnUndefined>>)>>
      [] statement.type = "ReturnStatement" ->
            <<RReturn(IF statement.argument = <<>> THEN <<>>
                      ELSE <<expression_to_rust_text(statement.argument[1])>>)>>
      [] statement.type = "VariableDeclaration" ->
            variable_declaration_to_rust_text(statement)
      [] statement.type = "ForStatement" ->
            LET init == IF statement.init = <<>> THEN <<>>
                        ELSE IF statement.init[1].type = "VariableDeclaration"
                        THEN variable_declaration_to_rust_text(statement.init[1])
                        ELSE <<RExprStmt(expression_to_rust_text(statement.init[1]))>>
                test == IF statement.test = <<>> THEN <<>>
                        ELSE <<RIfBreak(RMethodCall(
                                   RParen(expression_to_rust_text(statement.test[1])),
                                   "falsy", <<>>))>>
                update == IF statement.update = <<>> THEN <<>>
                          ELSE <<RExprStmt(expression_to_rust_text(statement.update[1]))>>
                body == statement_to_rust_text(statement.body)
            IN  ForLoop(init, test, body, update)
      [] statement.type = "BlockStatement" ->
            <<RBlockStmt(StatementsToRustText(statement.body))>>
      [] statement.type = "ExpressionStatement" ->
            <<RExprStmt(expression_to_rust_text(statement.expression))>>
      [] OTHER -> UnimplementedStatement(statement)

(***************************************************************************)
(* impl JsValue: to_number, call, and the functions negate and plus        *)
(***************************************************************************)
\* the decimal texts the model can parse back: the finite values of this set
ParsePool == {F64(n, d) : n \in -4..12, d \in {1, 2, 4}}

\* str::parse::<f64>, on the texts FormatF64 writes for ParsePool plus the
\* spellings of the non-finite values that Rust accepts
ParseF64(text) ==
    LET cands == {f \in ParsePool : FormatF64(f) = text} IN
    IF cands # {} THEN [ok |-> TRUE, f |-> CHOOSE f \in cands : TRUE]
    ELSE IF text \in {"inf", "+inf", "infinity", "Infinity"} THEN [ok |-> TRUE, f |-> INFINITY]
    ELSE IF text \in {"-inf", "-infinity", "-Infinity"} THEN [ok |-> TRUE, f |-> FNeg(INFINITY)]
    ELSE IF text \in {"NaN", "nan"} THEN [ok |-> TRUE, f |-> NAN]
    ELSE [ok |-> FALSE, f |-> NAN]

\* to_number with the arms of Undefined and Null exchanged
to_number_exchanged(self) ==
    Number(CASE self.t = "Undefined" -> <<0, 1>>
             [] self.t = "Null" -> NAN
             [] self.t = "Boolean" -> IF self.v THEN <<1, 1>> ELSE <<0, 1>>
             [] self.t = "Number" -> self.v
             [] self.t = "String" -> ParseF64(self.v).f
             [] self.t = "Object" -> NAN)

to_number(self) ==
    Number(CASE self.t = "Undefined" -> NAN
             [] self.t = "Null" -> <<0, 1>>
             [] self.t = "Boolean" -> IF self.v THEN <<1, 1>> ELSE <<0, 1>>
             [] self.t = "Number" -> self.v
             [] self.t = "String" -> ParseF64(self.v).f
             [] self.t = "Object" -> NAN)

negate(h, value) == Ok(Number(FNeg(to_number(value).v)), h)

plus(h, value) == Ok(to_number(value), h)

\* the println! of console.log: the to_js_string of the arguments joined by " "
RECURSIVE JoinJsStrings(_)
JoinJsStrings(args) ==
    IF args = <<>> THEN ""
    ELSE IF Len(args) = 1 THEN to_js_string(args[1])
    ELSE to_js_string(args[1]) \o " " \o JoinJsStrings(Tail(args))

RECURSIVE Pow10(_)
Pow10(k) == IF k = 0 THEN 1 ELSE 10 * Pow10(k - 1)

\* the k low decimal digits of n, leading zeros kept
RECURSIVE PadDigits(_, _)
PadDigits(n, k) == IF k = 0 THEN "" ELSE PadDigits(n \div 10, k - 1) \o Digit(n % 10)

\* format!("{number:.prec$}"): prec fraction digits, the exact value rounded
\* to the nearest, a tie to the even digit; the sign of a negative number is
\* kept even when every digit written is 0
FormatFixed(a, prec) ==
    IF IsNaN(a) THEN "NaN"
    ELSE IF a[2] = 0 THEN (IF a[1] > 0 THEN "inf" ELSE "-inf")
    ELSE LET scaled == Abs(a[1]) * Pow10(prec)
             q == scaled \div a[2]
             r == scaled % a[2]
             n == IF 2 * r > a[2] \/ (2 * r = a[2] /\ q % 2 = 1) THEN q + 1 ELSE q
             sgn == IF a[1] < 0 THEN "-" ELSE ""
             int == NatToStr(n \div Pow10(prec))
         IN  IF prec = 0 THEN sgn \o int
             ELSE sgn \o int \o "." \o PadDigits(n % Pow10(prec), prec)

\* the largest precision the model formats; `digits as usize` of +inf is
\* usize::MAX, which no formatter accepts
MaxPrecision == 4

\* the boxed closures the prelude builds.  f64::sqrt is carried only where
\* the root is rational: its last branch stands for results this
\* representation of f64 cannot hold, and no input of the model reaches it
NativeFunction(h, func, args) ==
    CASE func.name = "console.log" -> Ok(Undefined, h)
      [] func.name = "Math.sqrt" ->
            IF args = <<>> THEN Panic("index out of bounds", h)
            ELSE IF args[1].t # "Number" THEN Panic("not implemented", h)
            ELSE LET f == args[1].v
                     roots == {r \in ParsePool : r[1] >= 0 /\ FMul(r, r) = f}
                 IN  IF IsNaN(f) \/ f[1] < 0 THEN Ok(Number(NAN), h)
                     ELSE IF f[2] = 0 THEN Ok(Number(f), h)
                     ELSE IF roots # {} THEN Ok(Number(CHOOSE r \in roots : TRUE), h)
                     ELSE Panic("sqrt outside the model", h)
      [] func.name = "toFixed" ->
            IF args = <<>> THEN Panic("index out of bounds", h)
            ELSE IF args[1].t # "Number" THEN Panic("unreachable", h)
            ELSE LET digits == AsUsize(args[1].v, MaxPrecision + 1) IN
                 IF digits > MaxPrecision THEN Panic("precision out of range", h)
                 ELSE Ok(String(FormatFixed(func.num, digits)), h)
      [] OTHER -> Panic("unreachable", h)

\* call with an object that is no function answering Undefined
call_lenient(h, self, args) ==
    IF self.t = "Object"
    THEN (IF h[self.v].subtype = "Function" THEN NativeFunction(h, h[self.v].func, args)
          ELSE Ok(Undefined, h))
    ELSE Panic("not callable", h)

call(h, self, args) ==
    IF self.t = "Object" /\ h[self.v].subtype = "Function"
    THEN NativeFunction(h, h[self.v].func, args)
    ELSE Panic("Used the funciton call syntax () on something that isn't callable", h)

(***************************************************************************)
(* Running the emitted main().  The machine state st is the record         *)
(* [env, heap, trace]: env is the stack of local bindings, innermost last; *)
(* trace lists the runtime calls made so far.  An evaluation ends with a   *)
(* flow: "ok", "break", "return", "panic" (the runtime panicked) or        *)
(* "reject" (rustc refuses the text: the program is never built, and the   *)
(* model reports it at the offending expression).                          *)
(***************************************************************************)
Unit == [t |-> "Unit", v |-> 0]

Bool(b) == [t |-> "bool", v |-> b]

\* a closure captures the bindings in scope where it is written: the first
\* depth entries of the stack
Closure(params, body, depth) ==
    [t |-> "Closure", v |-> [params |-> params, body |-> body, depth |-> depth]]

IsJsValue(val) == val.t \in {"Null", "Undefined", "Boolean", "Number", "String", "Object"}

\* JsValue and Vec<JsValue> are not Copy: naming a binding by value moves it
IsCopy(val) == ~IsJsValue(val) /\ val.t # "Vec"

Binding(name, val, mutable, state) ==
    [name |-> name, val |-> val, mutable |-> mutable, state |-> state]

\* the innermost binding of name, 0 when there is none
Lookup(bindings, name) ==
    LET S == {i \in 1..Len(bindings) : bindings[i].name = name} IN
    IF S = {} THEN 0 ELSE CHOOSE i \in S : \A j \in S : j <= i

St(bindings, h, calls) == [env |-> bindings, heap |-> h, trace |-> calls]

Flow(flow, val, st) ==
    [flow |-> flow, val |-> val, env |-> st.env, heap |-> st.heap, trace |-> st.trace]

StOf(r) == St(r.env, r.heap, r.trace)

\* leaving a scope drops the bindings made in it
Leave(r, mark) == [r EXCEPT !.env = SubSeq(r.env, 1, mark)]

\* the outcome r of a runtime operation, recorded in the trace
Runtime(method, self, args, r, st) ==
    LET event == [m |-> method, self |-> self, args |-> args, ok |-> r.ok, ret |-> r.val]
        st2 == St(st.env, r.heap, Append(st.trace, event))
    IN  IF r.ok THEN Flow("ok", r.val, st2) ELSE Flow("panic", Unit, st2)

\* a numeric literal token of the emitted text, as rustc types it: a text
\* without a fraction is an integer literal, i32 here, and must fit i32
RustLiteral(text) ==
    IF text = "1.0" THEN [ok |-> TRUE, val |-> [t |-> "f64", v |-> <<1, 1>>]]
    ELSE LET p == ParseF64(text) IN
         IF ~p.ok \/ ~IsFinite(p.f) \/ p.f[1] < 0 THEN [ok |-> FALSE, val |-> Unit]
         ELSE IF p.f[2] # 1 THEN [ok |-> TRUE, val |-> [t |-> "f64", v |-> p.f]]
         ELSE IF p.f[1] <= 2147483647 THEN [ok |-> TRUE, val |-> [t |-> "i32", v |-> p.f]]
         ELSE [ok |-> FALSE, val |-> Unit]

\* the methods of impl JsValue (and Clone): a call of any other name is E0599
PreludeMethods ==
    {"add", "sub", "mult", "divide", "less", "get_prop", "set_prop", "to_js_string",
     "falsy", "truthy", "to_number", "call", "clone"}

\* the functions and constructors the prelude defines
PreludeFunctions ==
    {"negate", "plus", "console", "process", "math", "JsValue::Number", "JsValue::from",
     "JsValue::new_array", "JsValue::from_entries", "JsValue::new_function"}

\* a clone that copies the allocation behind an Object
clone_deep(h, self) == IF self.t = "Object" THEN Alloc(h, h[self.v]) ELSE Ok(self, h)

\* #[derive(Clone)] on JsValue: the clone of an Object is another handle to
\* the same allocation (Rc::clone), the clone of anything else is a copy
clone(h, self) == Ok(self, h)

\* self.method(args) on a JsValue, all arguments evaluated
MethodCall(method, self, args, st) ==
    LET h == st.heap
        arity == CASE method \in {"add", "sub", "mult", "divide", "less", "get_prop", "call"} -> 1
                   [] method = "set_prop" -> 2
                   [] OTHER -> 0
    IN  IF method \notin PreludeMethods \/ ~IsJsValue(self) \/ Len(args) # arity
        THEN Flow("reject", Unit, st)
        ELSE IF method = "call"
        THEN (IF args[1].t # "Vec" THEN Flow("reject", Unit, st)
              ELSE Runtime(method, self, args[1].v, call(h, self, args[1].v), st))
        ELSE IF \E j \in 1..Len(args) : ~IsJsValue(args[j]) THEN Flow("reject", Unit, st)
        ELSE CASE method = "add" -> Runtime(method, self, args, add(h, self, args[1]), st)
               [] method = "sub" -> Runtime(method, self, args, sub(h, self, args[1]), st)
               [] method = "mult" -> Runtime(method, self, args, mult(h, self, args[1]), st)
               [] method = "divide" -> Runtime(method, self, args, divide(h, self, args[1]), st)
               [] method = "less" -> Runtime(method, self, args, less(h, self, args[1]), st)
               [] method = "get_prop" ->
                    Runtime(method, self, args, get_prop(h, self, args[1]), st)
               [] method = "set_prop" ->
                    LET r == set_prop(h, self, args[1], args[2]) IN
                    Runtime(method, self, args, [r EXCEPT !.val = Unit], st)
               [] method = "clone" ->
                    LET r == clone(h, self) IN Flow("ok", r.val, [st EXCEPT !.heap = r.heap])
               [] method = "falsy" -> Flow("ok", Bool(falsy(self)), st)
               [] method = "truthy" -> Flow("ok", Bool(truthy(self)), st)
               [] method = "to_number" -> Flow("ok", to_number(self), st)
               [] method = "to_js_string" ->
                    Flow("ok", [t |-> "JsString", v |-> to_js_string(self)], st)

\* a call of a function or constructor of the prelude, all arguments evaluated
PreludeCall(name, args, st) ==
    LET h == st.heap IN
    CASE name \in {"console", "process", "math"} ->
            IF args # <<>> THEN Flow("reject", Unit, st)
            ELSE Flow("ok", [t |-> "Struct",
                             v |-> CASE name = "console" -> console
                                     [] name = "process" -> process
                                     [] name = "math" -> math], st)
      [] Len(args) # 1 -> Flow("reject", Unit, st)
      [] name = "JsValue::Number" ->
            IF args[1].t = "f64" THEN Flow("ok", Number(args[1].v), st)
            ELSE Flow("reject", Unit, st)
      [] name = "JsValue::from" ->
            IF args[1].t = "str" THEN Flow("ok", String(args[1].v), st)
            ELSE IF args[1].t = "f64" THEN Flow("ok", Number(args[1].v), st)
            ELSE Flow("reject", Unit, st)
      [] name = "JsValue::new_array" ->
            IF args[1].t = "Vec" /\ (\A j \in 1..Len(args[1].v) : IsJsValue(args[1].v[j]))
            THEN Runtime("new_array", Unit, args[1].v, new_array(h, args[1].v), st)
            ELSE Flow("reject", Unit, st)
      [] name = "JsValue::from_entries" ->
            IF args[1].t = "Entries" /\ (\A j \in 1..Len(args[1].v) : IsJsValue(args[1].v[j][2]))
            THEN Runtime("from_entries", Unit, <<>>, from_entries(h, args[1].v), st)
            ELSE Flow("reject", Unit, st)
      [] name \in {"negate", "plus"} ->
            IF ~IsJsValue(args[1]) THEN Flow("reject", Unit, st)
            ELSE IF name = "negate"
            THEN Runtime(name, Unit, args, negate(h, args[1]), st)
            ELSE Runtime(name, Unit, args, plus(h, args[1]), st)
      [] OTHER -> Flow("reject", Unit, st)

RECURSIVE StripParens(_)
StripParens(e) == IF e.k = "paren" THEN StripParens(e.e) ELSE e

RECURSIVE Eval(_, _)
RECURSIVE EvalEach(_, _)
RECURSIVE Exec(_, _)
RECURSIVE ExecStmts(_, _)
RECURSIVE ExecLoop(_, _)

\* a path used by value: the binding must hold a value, and gives it up
\* unless the value is Copy
EvalPath(name, st) ==
    IF name = "JsValue::Undefined" THEN Flow("ok", Undefined, st)
    ELSE LET i == Lookup(st.env, name) IN
         IF i = 0 THEN Flow("reject", Unit, st)
         ELSE IF st.env[i].state # "init" THEN Flow("reject", Unit, st)
         ELSE IF IsCopy(st.env[i].val) THEN Flow("ok", st.env[i].val, st)
         ELSE Flow("ok", st.env[i].val,
                   [st EXCEPT !.env = [@ EXCEPT ![i].state = "moved"]])

\* e names a local binding, parentheses aside
IsPlace(e, st) ==
    LET place == StripParens(e) IN
    place.k = "path" /\ Lookup(st.env, place.name) # 0

\* a binding used through a reference (a method receiver, a callee): it is
\* borrowed, not moved
BorrowPlace(e, st) ==
    LET i == Lookup(st.env, StripParens(e).name) IN
    IF st.env[i].state # "init" THEN Flow("reject", Unit, st)
    ELSE Flow("ok", st.env[i].val, st)

\* the place e is still usable after its arguments were evaluated (E0505:
\* an argument may not move out of the borrowed receiver)
StillBorrowable(e, st) ==
    IsPlace(e, st) => st.env[Lookup(st.env, StripParens(e).name)].state = "init"

\* an operand of an expression: by reference when it is a receiver or callee
Operand(e, byref) == [e |-> e, byref |-> byref]

ByValue(es) == [j \in 1..Len(es) |-> Operand(es[j], FALSE)]

\* what an expression evaluates, in this order, before its own operation
OperandsOf(e, st) ==
    CASE e.k \in {"cast", "paren", "field"} -> <<Operand(e.e, FALSE)>>
      [] e.k = "mcall" -> <<Operand(e.recv, TRUE)>> \o ByValue(e.args)
      [] e.k = "call" ->
            IF IsPlace(e.callee, st) \/ StripParens(e.callee).k # "path"
            THEN <<Operand(e.callee, TRUE)>> \o ByValue(e.args)
            ELSE ByValue(e.args)
      [] e.k \in {"sliceref", "vec"} -> ByValue(e.elements)
      [] e.k = "array" -> ByValue([j \in 1..Len(e.elements) |-> e.elements[j].value])
      [] e.k = "assign" -> <<Operand(e.source, FALSE)>>
      [] OTHER -> <<>>

\* the operands after the first, whose outcome is r; val is the sequence of
\* the values
EvalRest(r, rest) ==
    IF r.flow # "ok" THEN r
    ELSE LET more == EvalEach(rest, StOf(r)) IN
         IF more.flow # "ok" THEN more ELSE [more EXCEPT !.val = <<r.val>> \o more.val]

EvalEach(operands, st) ==
    IF operands = <<>> THEN Flow("ok", <<>>, st)
    ELSE LET o == Head(operands) IN
         EvalRest(IF o.byref /\ IsPlace(o.e, st) THEN BorrowPlace(o.e, st) ELSE Eval(o.e, st),
                  Tail(operands))

\* callee(args), the body having run to r: it must have returned a JsValue;
\* the caller's own bindings come back
Returned(r, closure, callers, st) ==
    LET back == [r EXCEPT !.env = SubSeq(r.env, 1, closure.depth) \o callers] IN
    IF r.flow = "return"
    THEN (IF IsJsValue(r.val) THEN [back EXCEPT !.flow = "ok"] ELSE Flow("reject", Unit, st))
    ELSE IF r.flow \in {"ok", "break"} THEN Flow("reject", Unit, st)
    ELSE back

\* callee(args): the body runs on the bindings the closure captured plus its
\* parameters
CallClosure(closure, args, st) ==
    IF Len(args) # Len(closure.params)
           \/ (\E j \in 1..Len(args) : ~IsJsValue(args[j]))
    THEN Flow("reject", Unit, st)
    ELSE LET captured == SubSeq(st.env, 1, closure.depth)
             callers == SubSeq(st.env, closure.depth + 1, Len(st.env))
             frame == [j \in 1..Len(args) |->
                          Binding(closure.params[j], args[j], FALSE, "init")]
         IN  Returned(ExecStmts(closure.body, [st EXCEPT !.env = captured \o frame]),
                      closure, callers, st)

\* target = source, the source having evaluated to r
Assign(target, r, st) ==
    LET i == Lookup(r.env, target) IN
    IF i = 0 \/ r.val[1].t = "Unit" THEN Flow("reject", Unit, st)
    ELSE IF ~r.env[i].mutable /\ r.env[i].state # "uninit" THEN Flow("reject", Unit, st)
    ELSE [r EXCEPT !.val = Unit,
                   !.env = [@ EXCEPT ![i].val = r.val[1], ![i].state = "init"]]

\* the operation of e itself, its operands having evaluated to r
Apply(e, r, st) ==
    IF r.flow # "ok" THEN r
    ELSE CASE e.k = "paren" -> [r EXCEPT !.val = r.val[1]]
           [] e.k = "cast" ->
                 IF r.val[1].t \in {"i32", "f64"} /\ e.ty = "f64"
                 THEN [r EXCEPT !.val = [t |-> "f64", v |-> r.val[1].v]]
                 ELSE Flow("reject", Unit, st)
           [] e.k = "field" ->
                 IF r.val[1].t # "Struct" \/ e.field \notin DOMAIN r.val[1].v
                 THEN Flow("reject", Unit, st)
                 ELSE [r EXCEPT !.val = r.val[1].v[e.field]]
           [] e.k = "mcall" ->
                 IF ~StillBorrowable(e.recv, StOf(r)) THEN Flow("reject", Unit, st)
                 ELSE MethodCall(e.method, r.val[1], Tail(r.val), StOf(r))
           [] e.k = "call" ->
                 IF Len(r.val) = Len(e.args)
                 THEN PreludeCall(StripParens(e.callee).name, r.val, StOf(r))
                 ELSE IF r.val[1].t # "Closure" THEN Flow("reject", Unit, st)
                 ELSE CallClosure(r.val[1].v, Tail(r.val), StOf(r))
           [] e.k \in {"sliceref", "vec"} -> [r EXCEPT !.val = [t |-> "Vec", v |-> r.val]]
           [] e.k = "array" ->
                 [r EXCEPT !.val =
                     [t |-> "Entries",
                      v |-> [j \in 1..Len(e.elements) |-> <<e.elements[j].key, r.val[j]>>]]]
           [] e.k = "assign" -> Assign(e.target, r, st)

\* { stmts tail }, the statements having run to r
BlockTail(r, tail) == IF r.flow # "ok" THEN r ELSE Eval(tail, StOf(r))

Eval(e, st) ==
    CASE e.k = "path" -> EvalPath(e.name, st)
      [] e.k = "lit" ->
            LET l == RustLiteral(e.text) IN
            IF l.ok THEN Flow("ok", l.val, st) ELSE Flow("reject", Unit, st)
      [] e.k = "str" -> Flow("ok", [t |-> "str", v |-> e.text], st)
      [] e.k = "block" -> Leave(BlockTail(ExecStmts(e.stmts, st), e.tail), Len(st.env))
      [] OTHER -> Apply(e, EvalEach(OperandsOf(e, st), st), st)

\* the statements after the first, whose outcome is r
ExecRest(r, rest) == IF r.flow # "ok" THEN r ELSE ExecStmts(rest, StOf(r))

ExecStmts(stmts, st) ==
    IF stmts = <<>> THEN Flow("ok", Unit, st) ELSE ExecRest(Exec(Head(stmts), st), Tail(stmts))

\* the turn of the loop that ended as r: another turn, or out at a break
NextTurn(r, body) ==
    IF r.flow = "ok" THEN ExecLoop(body, StOf(r))
    ELSE IF r.flow = "break" THEN [r EXCEPT !.flow = "ok"]
    ELSE r

\* loop { body }: the body again and again, in a scope of its own
ExecLoop(body, st) == NextTurn(Leave(ExecStmts(body, st), Len(st.env)), body)

\* the expression a statement evaluates first, if it has one
ExpressionOf(stmt) ==
    CASE stmt.k = "let" -> stmt.init
      [] stmt.k = "expr" -> <<stmt.e>>
      [] stmt.k = "return" -> stmt.e
      [] stmt.k = "ifbreak" -> <<stmt.cond>>
      [] OTHER -> <<>>

\* the statement itself, its expression having evaluated to r
Complete(stmt, r, st) ==
    IF r.flow # "ok" THEN r
    ELSE CASE stmt.k = "let" ->
                 [r EXCEPT !.val = Unit,
                           !.env = Append(@, Binding(stmt.name, r.val, stmt.mutable, "init"))]
           [] stmt.k = "expr" -> [r EXCEPT !.val = Unit]
           [] stmt.k = "return" -> [r EXCEPT !.flow = "return"]
           [] stmt.k = "ifbreak" ->
                 IF r.val.t # "bool" THEN Flow("reject", Unit, st)
                 ELSE IF r.val.v THEN [r EXCEPT !.flow = "break", !.val = Unit]
                 ELSE [r EXCEPT !.val = Unit]

Exec(stmt, st) ==
    IF ExpressionOf(stmt) # <<>> THEN Complete(stmt, Eval(ExpressionOf(stmt)[1], st), st)
    ELSE CASE stmt.k = "let" ->
                 Flow("ok", Unit,
                      [st EXCEPT !.env = Append(@, Binding(stmt.name, Unit, stmt.mutable,
                                                          "uninit"))])
           [] stmt.k = "letclosure" ->
                 Flow("ok", Unit,
                      [st EXCEPT !.env =
                          Append(@, Binding(stmt.name,
                                            Closure(stmt.params, stmt.body, Len(st.env)),
                                            FALSE, "init"))])
           [] stmt.k = "return" -> Flow("return", Unit, st)
           [] stmt.k = "loop" -> ExecLoop(stmt.body, st)
           [] stmt.k = "blockstmt" -> Leave(ExecStmts(stmt.body, st), Len(st.env))

(***************************************************************************)
(* What rustc resolves before anything runs: every method called on a      *)
(* JsValue and every function called by a path that the text itself does   *)
(* not bind must be an item of the prelude (E0599, E0425 otherwise).       *)
(***************************************************************************)
Children(t) ==
    CASE t.k \in {"path", "lit", "str"} -> <<>>
      [] t.k \in {"cast", "paren", "field", "expr"} -> <<t.e>>
      [] t.k = "mcall" -> <<t.recv>> \o t.args
      [] t.k = "call" -> <<t.callee>> \o t.args
      [] t.k \in {"sliceref", "vec"} -> t.elements
      [] t.k = "array" -> [j \in 1..Len(t.elements) |-> t.elements[j].value]
      [] t.k = "assign" -> <<t.source>>
      [] t.k = "block" -> t.stmts \o <<t.tail>>
      [] t.k = "let" -> t.init
      [] t.k = "return" -> t.e
      [] t.k = "ifbreak" -> <<t.cond>>
      [] t.k \in {"letclosure", "loop", "blockstmt"} -> t.body

RECURSIVE Terms(_)
RECURSIVE TermsOfAll(_)
\* t and everything written inside it, in the order of the text
Terms(t) == <<t>> \o TermsOfAll(Children(t))

TermsOfAll(ts) == IF ts = <<>> THEN <<>> ELSE Terms(Head(ts)) \o TermsOfAll(Tail(ts))

\* the names after a `.` that are followed by an argument list
MethodNames(text) ==
    LET ts == TermsOfAll(text) IN {ts[i].method : i \in {j \in 1..Len(ts) : ts[j].k = "mcall"}}

\* the names the text binds itself: let, closure and parameter names
LocalNames(text) ==
    LET ts == TermsOfAll(text) IN
    {ts[i].name : i \in {j \in 1..Len(ts) : ts[j].k \in {"let", "letclosure"}}}
        \cup UNION {{ts[i].params[j] : j \in 1..Len(ts[i].params)} :
                        i \in {j \in 1..Len(ts) : ts[j].k = "letclosure"}}

\* the paths called as functions that the text does not bind
FunctionNames(text) ==
    LET ts == TermsOfAll(text) IN
    {ts[i].callee.name : i \in {j \in 1..Len(ts) : ts[j].k = "call" /\ ts[j].callee.k = "path"}}
        \ LocalNames(text)

\* the fields read off console(), process() and math()
FieldNames(text) ==
    LET ts == TermsOfAll(text) IN
    {<<ts[i].e.callee.name, ts[i].field>> :
        i \in {j \in 1..Len(ts) : /\ ts[j].k = "field"
                                  /\ ts[j].e.k = "call"
                                  /\ ts[j].e.callee.k = "path"}}

\* the fields of ConsoleStruct, ProcessStruct and MathStruct
PreludeFields ==
    {<<"console", "log">>, <<"process", "argv">>, <<"math", "PI">>, <<"math", "sqrt">>}

Resolves(text) ==
    /\ MethodNames(text) \subseteq PreludeMethods
    /\ FunctionNames(text) \subseteq PreludeFunctions
    /\ FieldNames(text) \subseteq PreludeFields

(***************************************************************************)
(* Spec: a client of the runtime.  It holds the JsValues it can build from *)
(* the pools below and every handle the runtime has given it, and calls    *)
(* the runtime's operations in any order until one panics (the emitted     *)
(* program has no catch_unwind: a panic ends the process).                 *)
(***************************************************************************)
NumPool == { <<-1, 1>>, <<0, 1>>, <<1, 1>>, <<2, 1>>, <<1, 2>>, NAN, INFINITY }

StrPool == { "length", "p", "" }

Primitives ==
    {Null, Undefined, Boolean(TRUE), Boolean(FALSE)}
        \cup {Number(f) : f \in NumPool} \cup {String(s) : s \in StrPool}

Handles(h) == {Object(id) : id \in 1..Len(h)}

\* every value the client can name in heap h
Values(h) == Primitives \cup Handles(h)

\* the arguments the client passes when it drives the runtime
StoredValues(h) == {Number(<<1, 1>>)} \cup Handles(h)

Keys(h) ==
    {Number(<<0, 1>>), Number(<<1, 1>>), Number(<<1, 2>>), Number(INFINITY),
     String("length"), String("p")}

Receivers(h) == {Undefined, Number(<<1, 1>>)} \cup Handles(h)

SeqsUpTo(S, n) == UNION {[1..k -> S] : k \in 0..n}

NoOp == [op |-> "none", on |-> "none", ok |-> TRUE]

\* what an operation was called on: the variant of self, or the subtype of the object
ReceiverKind(h, self) == IF self.t = "Object" THEN h[self.v].subtype ELSE self.t

NoProgram == [type |-> "Program", body |-> <<>>]

\* the String `result` of node_to_rust_text: which of its parts were pushed
NoResult == [prelude |-> FALSE, opened |-> FALSE, main |-> <<>>, closed |-> FALSE]

NoScenario == [family |-> "none", i |-> 0, j |-> 0, op |-> "", name |-> "", flag |-> FALSE]

NoOutput == [returned |-> FALSE, text |-> NoResult]

InitApi ==
    /\ heap = <<>>
    /\ born = <<>>
    /\ status = "running"
    /\ last = NoOp
    /\ program = NoProgram
    /\ pos = 0
    /\ result = NoResult
    /\ output = NoOutput
    /\ phase = "api"
    /\ env = <<>>
    /\ control = <<>>
    /\ trace = <<>>
    /\ scenario = NoScenario

progVars == <<program, pos, result, output, phase, env, control, trace, scenario>>

\* the element count each allocation of r.heap was created with
Born(r) ==
    born \o [i \in 1..(Len(r.heap) - Len(born)) |-> Len(r.heap[Len(born) + i].array)]

\* the client takes the outcome r of the operation it called
Takes(r, op, self) ==
    /\ heap' = r.heap
    /\ born' = Born(r)
    /\ status' = IF r.ok THEN "running" ELSE "panicked"
    /\ last' = [op |-> op, on |-> ReceiverKind(heap, self), ok |-> r.ok]
    /\ UNCHANGED progVars

RECURSIVE CountProps(_)
CountProps(h) ==
    IF h = <<>> THEN 0
    ELSE Cardinality(DOMAIN h[Len(h)].properties) + CountProps(SubSeq(h, 1, Len(h) - 1))

PropsWithin(h) == CountProps(h) <= MaxProps

NewArray ==
    /\ phase = "api" /\ status = "running"
    /\ Len(heap) < MaxObjects
    /\ \E elements \in SeqsUpTo(StoredValues(heap), MaxLen) :
          Takes(new_array(heap, elements), "new_array", Undefined)

FromEntries ==
    /\ phase = "api" /\ status = "running"
    /\ Len(heap) < MaxObjects
    /\ \E entries \in SeqsUpTo({"p", "length"} \X StoredValues(heap), MaxProps) :
          Takes(from_entries(heap, entries), "from_entries", Undefined)

GetProp ==
    /\ phase = "api" /\ status = "running"
    /\ \E self \in Receivers(heap), name \in Keys(heap) :
          LET r == get_prop(heap, self, name) IN
          /\ Len(r.heap) <= MaxObjects
          /\ Takes(r, "get_prop", self)

SetProp ==
    /\ phase = "api" /\ status = "running"
    /\ \E self \in Receivers(heap), name \in Keys(heap), value \in StoredValues(heap) :
          LET r == set_prop(heap, self, name, value) IN
          /\ PropsWithin(r.heap)
          /\ Takes(r, "set_prop", self)

NextApi == NewArray \/ FromEntries \/ GetProp \/ SetProp

Spec == InitApi /\ [][NextApi]_vars

TypeOK ==
    /\ status \in {"running", "panicked", "done", "rejected"}
    /\ \A id \in 1..Len(heap) : heap[id].subtype \in {"RegularObject", "Function", "Array"}

(***************************************************************************)
(* SpecOps: the operators of impl JsValue that leave the heap alone (add,  *)
(* sub, mult, divide, less, truthy, falsy, to_number, call) and the        *)
(* functions negate and plus, each applied once to operands drawn from     *)
(* every variant of JsValue and every subtype of object.  The operands are *)
(* held in `last` until the operation is applied; `last` then holds the    *)
(* outcome as well.                                                        *)
(***************************************************************************)
MaxArgs == 1

\* the receivers of the toFixed closures of the heaps below
FixedPool == { <<1, 4>>, <<-1, 4>>, <<5, 2>> }

\* the built-ins, an Array, a plain object and the function that
\* get_prop(num, "toFixed") returns
OpsHeap(num) ==
    LET a == new_array(BuiltinHeap, <<Number(<<1, 1>>)>>)
        o == from_entries(a.heap, <<<<"p", Number(<<1, 1>>)>>>>)
        f == get_prop(o.heap, Number(num), String("toFixed"))
    IN  f.heap

OpsHeaps == {OpsHeap(num) : num \in FixedPool}

OpNumbers == { <<0, 1>>, <<1, 1>>, <<-1, 1>>, <<1, 4>>, <<4, 1>>, NAN, INFINITY, FNeg(INFINITY) }

OpStrings == { "", "p", "1", "0.25", "-1", "inf", "NaN" }

OpValues(h) ==
    {Null, Undefined, Boolean(TRUE), Boolean(FALSE)}
        \cup {Number(f) : f \in OpNumbers} \cup {String(x) : x \in OpStrings}
        \cup Handles(h)

Held(op, self, args) ==
    [op |-> op, self |-> self, args |-> args, ok |-> TRUE, val |-> Undefined]

InitOps ==
    /\ heap \in OpsHeaps
    /\ \E self \in OpValues(heap), args \in SeqsUpTo(OpValues(heap), MaxArgs) :
          last = Held("none", self, args)
    /\ born = <<>>
    /\ status = "running"
    /\ program = NoProgram
    /\ pos = 0
    /\ result = NoResult
    /\ output = NoOutput
    /\ phase = "ops"
    /\ env = <<>>
    /\ control = <<>>
    /\ trace = <<>>
    /\ scenario = NoScenario

Pending == phase = "ops" /\ status = "running" /\ last.op = "none"

\* the operation op has been applied to the operands held, with outcome r
Finishes(op, r) ==
    /\ heap' = r.heap
    /\ status' = IF r.ok THEN "done" ELSE "panicked"
    /\ last' = [last EXCEPT !.op = op, !.ok = r.ok, !.val = r.val]
    /\ UNCHANGED <<born, progVars>>

Add == Pending /\ Len(last.args) = 1 /\ Finishes("add", add(heap, last.self, last.args[1]))

Sub == Pending /\ Len(last.args) = 1 /\ Finishes("sub", sub(heap, last.self, last.args[1]))

Mult == Pending /\ Len(last.args) = 1 /\ Finishes("mult", mult(heap, last.self, last.args[1]))

Divide ==
    Pending /\ Len(last.args) = 1 /\ Finishes("divide", divide(heap, last.self, last.args[1]))

Less == Pending /\ Len(last.args) = 1 /\ Finishes("less", less(heap, last.self, last.args[1]))

Truthy == Pending /\ last.args = <<>> /\ Finishes("truthy", Ok(Bool(truthy(last.self)), heap))

Falsy == Pending /\ last.args = <<>> /\ Finishes("falsy", Ok(Bool(falsy(last.self)), heap))

ToNumber == Pending /\ last.args = <<>> /\ Finishes("to_number", Ok(to_number(last.self), heap))

\* the function the lowering names for unary minus, applied to one value
Negate ==
    /\ Pending /\ last.args = <<>>
    /\ unary_operator_to_rust_text("UnaryNegation") = "negate"
    /\ Finishes("negate", negate(heap, last.self))

\* the function the lowering names for unary plus, applied to one value
Plus ==
    /\ Pending /\ last.args = <<>>
    /\ unary_operator_to_rust_text("UnaryPlus") = "plus"
    /\ Finishes("plus", plus(heap, last.self))

Call == Pending /\ Finishes("call", call(heap, last.self, last.args))

NextOps ==
    Add \/ Sub \/ Mult \/ Divide \/ Less \/ Truthy \/ Falsy \/ ToNumber \/ Negate \/ Plus \/ Call

SpecOps == InitOps /\ [][NextOps]_vars

(***************************************************************************)
(* The programs handed to the lowering.  A scenario names one program of   *)
(* a family: i and j are numbers, op an operator or node kind, name an     *)
(* identifier or a place, flag a variant of the family.                    *)
(***************************************************************************)
Scenario(family, i, j, op, name, flag) ==
    [family |-> family, i |-> i, j |-> j, op |-> op, name |-> name, flag |-> flag]

Num(k) == NumericLiteral(<<k, 1>>)

Half == NumericLiteral(<<1, 2>>)

\* let name = init;
Let(name, init) ==
    VariableDeclaration(<<VariableDeclarator("let", "BindingIdentifier", name, <<init>>)>>)

\* target = value;
Set(target, operator, value) == ExpressionStatement(AssignmentExpression(operator, target, value))

\* expressions that evaluate to Numbers, with the Number each evaluates to:
\* the literals 0 .. MaxLit and 0.5, then -1, +inf and NaN
Operands ==
    [k \in 1..(MaxLit + 1) |-> [exp |-> Num(k - 1), val |-> <<k - 1, 1>>]]
        \o << [exp |-> Half, val |-> <<1, 2>>],
              [exp |-> UnaryExpression("UnaryNegation", Num(1)), val |-> <<-1, 1>>],
              [exp |-> ParenthesizedExpression(BinaryExpression("Division", Num(1), Num(0))),
               val |-> INFINITY],
              [exp |-> ParenthesizedExpression(BinaryExpression("Division", Num(0), Num(0))),
               val |-> NAN] >>

ArithmeticOperators == {"Addition", "Subtraction", "Multiplication", "Division"}

\* let a = A; let b = B; let r = a op b;     or     let r = A op B;
BinaryProgram(a, b, operator, direct) ==
    IF direct THEN <<Let("r", BinaryExpression(operator, a, b))>>
    ELSE <<Let("a", a), Let("b", b),
           Let("r", BinaryExpression(operator, Identifier("a"), Identifier("b")))>>

\* sum = sum + i;
Accumulate ==
    Set(AssignmentTargetIdentifier("sum"), "Assign",
        BinaryExpression("Addition", Identifier("sum"), Identifier("i")))

\* let sum = 0; for (let i = 0; i < n; i++) { sum = sum + i; }
\* let sum = 0; let i; for (i = 0 * 0; i < n; i += 1) sum = sum + i;
ForProgram(n, postfix) ==
    LET test == BinaryExpression("LessThan", Identifier("i"), Num(n)) IN
    IF postfix
    THEN <<Let("sum", Num(0)),
           ForStatement(<<Let("i", Num(0))>>, <<test>>,
                        <<UpdateExpression("Increment", FALSE, AssignmentTargetIdentifier("i"))>>,
                        BlockStatement(<<Accumulate>>))>>
    ELSE <<Let("sum", Num(0)),
           VariableDeclaration(<<VariableDeclarator("let", "BindingIdentifier", "i", <<>>)>>),
           ForStatement(<<AssignmentExpression("Assign", AssignmentTargetIdentifier("i"),
                                               BinaryExpression("Multiplication", Num(0), Num(0)))>>,
                        <<test>>,
                        <<AssignmentExpression("Addition", AssignmentTargetIdentifier("i"), Num(1))>>,
                        Accumulate)>>

\* let y = 0.5; let x = n; let r = x++;  (or x--, ++x, --x), then, when the
\* program goes on to use x, let s = x;
UpdateProgram(name, operator, prefix, n, reads) ==
    <<Let("y", Half), Let(name, Num(n)),
      Let("r", UpdateExpression(operator, prefix, AssignmentTargetIdentifier(name)))>>
        \o (IF reads THEN <<Let("s", Identifier(name))>> ELSE <<>>)

UnsupportedKinds == {"WhileStatement", "IfStatement", "SwitchStatement", "TryStatement"}

Unsupported(kind) ==
    CASE kind = "WhileStatement" -> WhileStatement(Identifier("c"), BlockStatement(<<>>))
      [] kind = "IfStatement" -> IfStatement(Identifier("c"), BlockStatement(<<>>))
      [] OTHER -> [type |-> kind]

Places == {"top", "block", "for", "function"}

\* `before` statements that lower, then a statement of an unsupported kind
\* at the place named, one level further down when deeper, then one more
\* statement that lowers
UnsupportedProgram(kind, place, before, deeper) ==
    LET u == IF deeper THEN BlockStatement(<<ExpressionStatement(Num(0)), Unsupported(kind)>>)
             ELSE Unsupported(kind)
        at == CASE place = "top" -> u
                [] place = "block" -> BlockStatement(<<u>>)
                [] place = "for" -> ForStatement(<<>>, <<>>, <<>>, u)
                [] place = "function" -> FunctionDeclaration("f", <<>>, <<u>>)
    IN  [k \in 1..before |-> ExpressionStatement(Num(k))] \o <<at, ExpressionStatement(Num(0))>>

\* function f(p) { p[j] = i; } let a = [0.5, 0.5]; f(a); let r = a[j];
\* function f(p) { p.q = i; } let a = {q: 0.5}; f(a); let r = a.q;
SharedProgram(subtype, i, j) ==
    LET member(o) == IF subtype = "Array" THEN ComputedMemberExpression(Identifier(o), Num(j))
                     ELSE StaticMemberExpression(Identifier(o), "q")
        object == IF subtype = "Array" THEN ArrayExpression(<<Half, Half>>)
                  ELSE ObjectExpression(<<ObjectProperty("StaticIdentifier", "q", Half)>>)
    IN  <<FunctionDeclaration("f", <<FormalParameter("BindingIdentifier", "p")>>,
                              <<Set(member("p"), "Assign", Num(i))>>),
          Let("a", object),
          ExpressionStatement(CallExpression(Identifier("f"), <<Identifier("a")>>)),
          Let("r", member("a"))>>

\* one expression of every form the lowering has an arm for, over
\* let a = 1; let b = 2; let o = {p: 1}; let v = [1]; function f(p) {}
Constructs ==
    LET a == Identifier("a")
        b == Identifier("b")
        o == Identifier("o")
        v == Identifier("v")
        ta == AssignmentTargetIdentifier("a")
        op == StaticMemberExpression(o, "p")
        v0 == ComputedMemberExpression(v, Num(0))
    IN  << BinaryExpression("Addition", a, b), BinaryExpression("Subtraction", a, b),
           BinaryExpression("Multiplication", a, b), BinaryExpression("Division", a, b),
           BinaryExpression("LessThan", a, b),
           UnaryExpression("UnaryNegation", a), UnaryExpression("UnaryPlus", a),
           UpdateExpression("Increment", FALSE, ta), UpdateExpression("Decrement", FALSE, ta),
           UpdateExpression("Increment", TRUE, ta), UpdateExpression("Decrement", TRUE, ta),
           AssignmentExpression("Assign", ta, b), AssignmentExpression("Addition", ta, b),
           AssignmentExpression("Subtraction", ta, b),
           AssignmentExpression("Multiplication", ta, b),
           AssignmentExpression("Division", ta, b),
           AssignmentExpression("Assign", op, b), AssignmentExpression("Addition", op, b),
           AssignmentExpression("Assign", v0, b),
           op, v0,
           CallExpression(Identifier("f"), <<a>>),
           CallExpression(StaticMemberExpression(Identifier("console"), "log"), <<a>>),
           CallExpression(StaticMemberExpression(Identifier("Math"), "sqrt"), <<a>>),
           StaticMemberExpression(Identifier("Math"), "PI"),
           StaticMemberExpression(Identifier("process"), "argv"),
           ArrayExpression(<<a, b>>),
           ObjectExpression(<<ObjectProperty("StaticIdentifier", "p", a)>>),
           ParenthesizedExpression(a), Half >>

ConstructProgram(i) ==
    <<Let("a", Num(1)), Let("b", Num(2)),
      Let("o", ObjectExpression(<<ObjectProperty("StaticIdentifier", "p", Num(1))>>)),
      Let("v", ArrayExpression(<<Num(1)>>)),
      FunctionDeclaration("f", <<FormalParameter("BindingIdentifier", "p")>>, <<>>),
      ExpressionStatement(Constructs[i])>>

LiteralKinds == {"NumericLiteral", "StringLiteral", "BooleanLiteral", "NullLiteral"}

\* the literal of a kind: i or 0.5, "a" or "", true or false, null
Literal(kind, i, flag) ==
    CASE kind = "NumericLiteral" -> IF flag THEN Half ELSE Num(i)
      [] kind = "StringLiteral" -> StringLiteral(IF flag THEN "" ELSE "a")
      [] kind = "BooleanLiteral" -> BooleanLiteral(flag)
      [] kind = "NullLiteral" -> NullLiteral

\* let r = literal;
LiteralProgram(kind, i, flag) == <<Let("r", Literal(kind, i, flag))>>

\* the places behind the built-in accessors that a program can name as the
\* target of an assignment
BuiltinTargets == {"process.argv", "console.log", "Math.sqrt", "Math.PI"}

\* let first = T; T = i; let r = T;   where T is process.argv[j],
\* console.log.p, Math.sqrt.p or Math.PI
BuiltinProgram(name, i, j) ==
    LET member(object, property) == StaticMemberExpression(Identifier(object), property)
        target ==
            CASE name = "process.argv" -> ComputedMemberExpression(member("process", "argv"), Num(j))
              [] name = "console.log" -> StaticMemberExpression(member("console", "log"), "p")
              [] name = "Math.sqrt" -> StaticMemberExpression(member("Math", "sqrt"), "p")
              [] name = "Math.PI" -> member("Math", "PI")
    IN  <<Let("first", target), Set(target, "Assign", Num(i)), Let("r", target)>>

\* enum AssignmentOperator of the front end
AssignmentOperators ==
    {"Assign", "Addition", "Subtraction", "Multiplication", "Division", "Remainder",
     "Exponential", "ShiftLeft", "ShiftRight", "ShiftRightZeroFill", "BitwiseOR",
     "BitwiseXOR", "BitwiseAnd", "LogicalOr", "LogicalAnd", "LogicalNullish"}

\* the kinds of AssignmentTarget: a, o.p, v[0], o.#p, [a] and {a}
AssignmentTargets ==
    {"AssignmentTargetIdentifier", "StaticMemberExpression", "ComputedMemberExpression",
     "PrivateFieldExpression", "ArrayAssignmentTarget", "ObjectAssignmentTarget"}

AssignmentTarget(kind) ==
    CASE kind = "AssignmentTargetIdentifier" -> AssignmentTargetIdentifier("a")
      [] kind = "StaticMemberExpression" -> StaticMemberExpression(Identifier("o"), "p")
      [] kind = "ComputedMemberExpression" -> ComputedMemberExpression(Identifier("v"), Num(0))
      [] OTHER -> [type |-> kind]

\* let a = 1; let b = 2; let o = {p: 1}; let v = [1]; target op b;
AssignProgram(kind, operator) ==
    <<Let("a", Num(1)), Let("b", Num(2)),
      Let("o", ObjectExpression(<<ObjectProperty("StaticIdentifier", "p", Num(1))>>)),
      Let("v", ArrayExpression(<<Num(1)>>)),
      Set(AssignmentTarget(kind), operator, Identifier("b"))>>

\* the kinds of callee: f, console.log, v[0], g(), [], this, a?.b, 1,
\* function () {} and () => {}
CalleeKinds ==
    {"Identifier", "StaticMemberExpression", "ComputedMemberExpression", "CallExpression",
     "ArrayExpression", "ThisExpression", "ChainExpression", "NumericLiteral",
     "FunctionExpression", "ArrowFunctionExpression"}

Callee(kind) ==
    CASE kind = "Identifier" -> Identifier("f")
      [] kind = "StaticMemberExpression" -> StaticMemberExpression(Identifier("console"), "log")
      [] kind = "ComputedMemberExpression" -> ComputedMemberExpression(Identifier("v"), Num(0))
      [] kind = "CallExpression" -> CallExpression(Identifier("g"), <<>>)
      [] kind = "ArrayExpression" -> ArrayExpression(<<>>)
      [] kind = "NumericLiteral" -> Num(1)
      [] OTHER -> [type |-> kind]

\* e inside n pairs of parentheses
RECURSIVE Parenthesized(_, _)
Parenthesized(e, n) ==
    IF n = 0 THEN e ELSE ParenthesizedExpression(Parenthesized(e, n - 1))

\* the levels of parentheses put around a callee
MaxParens == 2

\* let a = 1; let b = 2; function f(p, q) {} function g() { return console.log; }
\* let v = [console.log]; let r = callee(a, b);
\* with the first nargs of the parameters and of the arguments
CallProgram(kind, nargs, parens) ==
    LET log == StaticMemberExpression(Identifier("console"), "log") IN
    <<Let("a", Num(1)), Let("b", Num(2)),
      FunctionDeclaration("f", SubSeq(<<FormalParameter("BindingIdentifier", "p"),
                                        FormalParameter("BindingIdentifier", "q")>>, 1, nargs),
                          <<>>),
      FunctionDeclaration("g", <<>>, <<ReturnStatement(<<log>>)>>),
      Let("v", ArrayExpression(<<log>>)),
      Let("r", CallExpression(Parenthesized(Callee(kind), parens),
                              SubSeq(<<Identifier("a"), Identifier("b")>>, 1, nargs)))>>

\* how the body of f ends: return p; or return; or nothing
ReturnForms == {"argument", "bare", "none"}

\* function f(p) { return p; } let r = f(i);    (or return; or an empty
\* body), the return statement inside a block when nested
ReturnProgram(form, i, nested) ==
    LET ret == ReturnStatement(IF form = "argument" THEN <<Identifier("p")>> ELSE <<>>)
        body == IF form = "none" THEN <<>>
                ELSE IF nested THEN <<BlockStatement(<<ret>>)>>
                ELSE <<ret>>
    IN  <<FunctionDeclaration("f", <<FormalParameter("BindingIdentifier", "p")>>, body),
          Let("r", CallExpression(Identifier("f"), <<Num(i)>>))>>

\* how a program stores an object where the object itself can be reached:
\* directly, through the object or array it holds in p, or through the
\* result of the identity function
CycleKinds == {"direct", "nested", "identity"}

\* let o = {p: i}; o.p = o;                        (let o = [i]; o[0] = o;)
\* let o = {p: {q: i}}; o.p.q = o;                 (let o = {p: [i]}; o.p[0] = o;)
\* function f(x) { return x; } let o = {p: i}; o.p = f(o);      (let o = [i]; o[0] = f(o);)
CycleProgram(kind, i, array) ==
    LET o == Identifier("o")
        inner == IF array THEN ArrayExpression(<<Num(i)>>)
                 ELSE ObjectExpression(<<ObjectProperty("StaticIdentifier", "q", Num(i))>>)
        holder == ObjectExpression(<<ObjectProperty("StaticIdentifier", "p", inner)>>)
        flat == IF array THEN ArrayExpression(<<Num(i)>>)
                ELSE ObjectExpression(<<ObjectProperty("StaticIdentifier", "p", Num(i))>>)
        member(object, property) ==
            IF array THEN ComputedMemberExpression(object, Num(0))
            ELSE StaticMemberExpression(object, property)
    IN  CASE kind = "direct" -> <<Let("o", flat), Set(member(o, "p"), "Assign", o)>>
          [] kind = "nested" ->
                <<Let("o", holder),
                  Set(member(StaticMemberExpression(o, "p"), "q"), "Assign", o)>>
          [] kind = "identity" ->
                <<FunctionDeclaration("f", <<FormalParameter("BindingIdentifier", "x")>>,
                                      <<ReturnStatement(<<Identifier("x")>>)>>),
                  Let("o", flat),
                  Set(member(o, "p"), "Assign", CallExpression(Identifier("f"), <<o>>))>>

\* the receivers of a compound member assignment: o, a[k++] and g()
CompoundReceivers == {"Identifier", "ComputedMemberExpression", "CallExpression"}

\* let v = j; let o = {p: i}; o.p += v;
\* let v = j; let k = 0; let a = [{p: i}, {p: i + 1}]; a[k++].p += v;
\* let v = j; function g() { return {p: i}; } g().p += v;
\* the value being v++ instead of v when the value has an effect of its own
CompoundProgram(kind, i, j, effect) ==
    LET entry(n) == ObjectExpression(<<ObjectProperty("StaticIdentifier", "p", Num(n))>>)
        postfix(name) == UpdateExpression("Increment", FALSE, AssignmentTargetIdentifier(name))
        value == IF effect THEN postfix("v") ELSE Identifier("v")
        compound(object) == Set(StaticMemberExpression(object, "p"), "Addition", value)
    IN  <<Let("v", Num(j))>> \o
        CASE kind = "Identifier" -> <<Let("o", entry(i)), compound(Identifier("o"))>>
          [] kind = "ComputedMemberExpression" ->
                <<Let("k", Num(0)), Let("a", ArrayExpression(<<entry(i), entry(i + 1)>>)),
                  compound(ComputedMemberExpression(Identifier("a"), postfix("k")))>>
          [] kind = "CallExpression" ->
                <<FunctionDeclaration("g", <<>>, <<ReturnStatement(<<entry(i)>>)>>),
                  compound(CallExpression(Identifier("g"), <<>>))>>

\* where the for statement stands: among the statements of the program, or
\* in a block of its own
ScopePlaces == {"top", "block"}

\* let i = outer; for (let i = 0; i < n; i++) {} let r = i;
\* with the for statement in a block of its own when place is "block", and
\* without the first statement when no outer i is declared
ScopeProgram(place, n, outer, declared) ==
    LET loop == ForStatement(<<Let("i", Num(0))>>,
                             <<BinaryExpression("LessThan", Identifier("i"), Num(n))>>,
                             <<UpdateExpression("Increment", FALSE,
                                                AssignmentTargetIdentifier("i"))>>,
                             BlockStatement(<<>>))
    IN  (IF declared THEN <<Let("i", Num(outer))>> ELSE <<>>)
        \o <<IF place = "block" THEN BlockStatement(<<loop>>) ELSE loop>>
        \o <<Let("r", Identifier("i"))>>

Scenarios ==
    {Scenario("binary", i, j, op, "", flag) :
        i \in 1..Len(Operands), j \in 1..Len(Operands), op \in ArithmeticOperators,
        flag \in BOOLEAN}
    \cup {Scenario("for", n, 0, "", "", flag) : n \in 0..MaxN, flag \in BOOLEAN}
    \cup {Scenario("update", n, reads, op, name, flag) :
            n \in 0..MaxLit, reads \in 0..1, op \in {"Increment", "Decrement"},
            name \in {"x", "i", "tmp"}, flag \in BOOLEAN}
    \cup {Scenario("unsupported", before, 0, kind, place, flag) :
            before \in 0..MaxLit, kind \in UnsupportedKinds, place \in Places,
            flag \in BOOLEAN}
    \cup {Scenario("shared", i, j, "", subtype, FALSE) :
            i \in 0..MaxLit, j \in 0..1, subtype \in {"Array", "RegularObject"}}
    \cup {Scenario("construct", i, 0, "", "", FALSE) : i \in 1..Len(Constructs)}
    \cup {Scenario("literal", i, 0, kind, "", flag) :
            i \in 0..MaxLit, kind \in LiteralKinds, flag \in BOOLEAN}
    \cup {Scenario("builtin", i, j, "", name, FALSE) :
            i \in 0..MaxLit, j \in 0..1, name \in BuiltinTargets}
    \cup {Scenario("assign", 0, 0, op, kind, FALSE) :
            op \in AssignmentOperators, kind \in AssignmentTargets}
    \cup {Scenario("call", nargs, parens, "", kind, FALSE) :
            nargs \in 0..2, parens \in 0..MaxParens, kind \in CalleeKinds}
    \cup {Scenario("return", i, 0, "", form, flag) :
            i \in 0..MaxLit, form \in ReturnForms, flag \in BOOLEAN}
    \cup {Scenario("cycle", i, 0, "", kind, flag) :
            i \in 0..MaxLit, kind \in CycleKinds, flag \in BOOLEAN}
    \cup {Scenario("compound", i, j, "", kind, flag) :
            i \in 0..MaxLit, j \in 0..MaxLit, kind \in CompoundReceivers, flag \in BOOLEAN}
    \cup {Scenario("scope", n, j, "", place, flag) :
            n \in 0..MaxN, j \in 0..MaxLit, place \in ScopePlaces, flag \in BOOLEAN}

ProgramOf(sc) ==
    Program(CASE sc.family = "binary" ->
                    BinaryProgram(Operands[sc.i].exp, Operands[sc.j].exp, sc.op, sc.flag)
              [] sc.family = "for" -> ForProgram(sc.i, sc.flag)
              [] sc.family = "update" -> UpdateProgram(sc.name, sc.op, sc.flag, sc.i, sc.j = 1)
              [] sc.family = "unsupported" -> UnsupportedProgram(sc.op, sc.name, sc.i, sc.flag)
              [] sc.family = "shared" -> SharedProgram(sc.name, sc.i, sc.j)
              [] sc.family = "construct" -> ConstructProgram(sc.i)
              [] sc.family = "literal" -> LiteralProgram(sc.op, sc.i, sc.flag)
              [] sc.family = "builtin" -> BuiltinProgram(sc.name, sc.i, sc.j)
              [] sc.family = "assign" -> AssignProgram(sc.name, sc.op)
              [] sc.family = "call" -> CallProgram(sc.name, sc.i, sc.j)
              [] sc.family = "return" -> ReturnProgram(sc.name, sc.i, sc.flag)
              [] sc.family = "cycle" -> CycleProgram(sc.name, sc.i, sc.flag)
              [] sc.family = "compound" -> CompoundProgram(sc.name, sc.i, sc.j, sc.flag)
              [] sc.family = "scope" ->
                    ScopeProgram(sc.name, sc.i, sc.i + 1 + sc.j, sc.flag))

(***************************************************************************)
(* SpecProg: node_to_rust_text lowers the program statement by statement;  *)
(* the text it returns is built and its main() run statement by statement. *)
(***************************************************************************)
InitProg ==
    /\ scenario \in Scenarios
    /\ program = ProgramOf(scenario)
    /\ pos = 0
    /\ result = NoResult
    /\ output = NoOutput
    /\ phase = "lowering"
    /\ status = "running"
    /\ heap = BuiltinHeap
    /\ born = <<>>
    /\ last = NoOp
    /\ env = <<>>
    /\ control = <<>>
    /\ trace = <<>>

\* result.push_str(OUTPUT_PRELUDE); result.push_str("fn main() {\n");
BeginLowering ==
    /\ phase = "lowering" /\ pos = 0
    /\ result' = [result EXCEPT !.prelude = TRUE, !.opened = TRUE]
    /\ pos' = 1
    /\ UNCHANGED <<heap, born, status, last, program, output, phase, env, control, trace,
                   scenario>>

\* one turn of `for statement in program.body.iter()`; a panic inside
\* statement_to_rust_text unwinds out of node_to_rust_text, result is
\* dropped and nothing is returned
LowerStatement ==
    /\ phase = "lowering" /\ pos \in 1..Len(program.body)
    /\ LET text == statement_to_rust_text(program.body[pos]) IN
       IF Aborted(text)
       THEN /\ phase' = "aborted"
            /\ result' = NoResult
            /\ pos' = pos
       ELSE /\ phase' = phase
            /\ result' = [result EXCEPT !.main = @ \o text]
            /\ pos' = pos + 1
    /\ UNCHANGED <<heap, born, status, last, program, output, env, control, trace, scenario>>

\* result.push_str("}"); result
FinishLowering ==
    /\ phase = "lowering" /\ pos = Len(program.body) + 1
    /\ result' = [result EXCEPT !.closed = TRUE]
    /\ output' = [returned |-> TRUE, text |-> result']
    /\ phase' = "lowered"
    /\ UNCHANGED <<heap, born, status, last, program, pos, env, control, trace, scenario>>

\* rustc on the text returned: name resolution
Build ==
    /\ phase = "lowered"
    /\ phase' = "exec"
    /\ control' = output.text.main
    /\ status' = IF Resolves(output.text.main) THEN "running" ELSE "rejected"
    /\ UNCHANGED <<heap, born, last, program, pos, result, output, env, trace, scenario>>

\* the next statement of main(); a `return` of a value there is E0308
ExecStatement ==
    /\ phase = "exec" /\ status = "running" /\ control # <<>>
    /\ LET r == Exec(Head(control), St(env, heap, trace)) IN
       /\ env' = r.env
       /\ heap' = r.heap
       /\ trace' = r.trace
       /\ status' = CASE r.flow = "ok" -> "running"
                      [] r.flow = "panic" -> "panicked"
                      [] r.flow = "return" -> IF r.val = Unit THEN "done" ELSE "rejected"
                      [] OTHER -> "rejected"
       /\ control' = Tail(control)
    /\ UNCHANGED <<born, last, program, pos, result, output, phase, scenario>>

\* main() runs off its end
Exit ==
    /\ phase = "exec" /\ status = "running" /\ control = <<>>
    /\ status' = "done"
    /\ UNCHANGED <<heap, born, last, program, pos, result, output, phase, env, control, trace,
                   scenario>>

NextProg == BeginLowering \/ LowerStatement \/ FinishLowering \/ Build \/ ExecStatement \/ Exit

SpecProg == InitProg /\ [][NextProg]_vars

(***************************************************************************)
(* Properties of the runtime, over every state the client reaches          *)
(***************************************************************************)
ArrayHandles(h) == {o \in Handles(h) : h[o.v].subtype = "Array"}

\* a value of every variant of JsValue, and every handle
OneOfEach(h) ==
    {Null, Undefined, Boolean(TRUE), Number(<<1, 2>>), String("p")} \cup Handles(h)

\* the Number keys 0 .. count-1 of the Array self
Indices(h, self) == {Number(<<i, 1>>) : i \in 0..(Len(h[self.v].array) - 1)}

\* C2: on every Array, for every index i with 0 <= i < element count and
\* every value x (one of each variant of JsValue, and every handle),
\* set_prop(i, x) followed by get_prop(i) returns x, and
\* get_prop(j) of every other in-range index j returns what it returned
\* before the write.
C2_SetThenGet ==
    \A self \in ArrayHandles(heap) : \A name \in Indices(heap, self) : \A x \in OneOfEach(heap) :
        LET w == set_prop(heap, self, name, x) IN
        /\ w.ok
        /\ get_prop(w.heap, self, name) = Ok(x, w.heap)
        /\ \A j \in Indices(heap, self) \ {name} :
              /\ get_prop(w.heap, self, j).ok
              /\ get_prop(w.heap, self, j).val = get_prop(heap, self, j).val

C2_Witness ==
    /\ last = [op |-> "set_prop", on |-> "Array", ok |-> TRUE]
    /\ \E self \in ArrayHandles(heap) :
          /\ Len(heap[self.v].array) = 2
          /\ heap[self.v].array[1] # heap[self.v].array[2]

\* C3: after any sequence of get_prop and set_prop calls, faulting ones
\* included, get_prop("length") of an Array is the element count it was
\* created with; no set_prop changes the count, and none stores a "length"
\* property (a set_prop with the key "length" faults).
C3_LengthFixed ==
    \A self \in ArrayHandles(heap) :
        /\ get_prop(heap, self, String("length")) = Ok(FromUsize(born[self.v]), heap)
        /\ "length" \notin DOMAIN heap[self.v].properties
        /\ \A name \in Values(heap), x \in StoredValues(heap) :
              LET w == set_prop(heap, self, name, x) IN
              /\ Len(w.heap[self.v].array) = born[self.v]
              /\ w.heap[self.v].properties = NoProperties
              /\ name = String("length") => ~w.ok

C3_Witness ==
    /\ last = [op |-> "set_prop", on |-> "Array", ok |-> FALSE]
    /\ status = "panicked"
    /\ \E self \in ArrayHandles(heap) : born[self.v] = 2 /\ heap[self.v].array[2].t = "Object"

\* C4: get_prop on an Undefined receiver faults for every key (Null,
\* Undefined, Boolean, Number, String, Object) and returns no value.
C4_UndefinedReceiverFaults ==
    /\ \A name \in Values(heap) : ~get_prop(heap, Undefined, name).ok
    /\ (last.op = "get_prop" /\ last.on = "Undefined") => (~last.ok /\ status = "panicked")

C4_Witness ==
    /\ last = [op |-> "get_prop", on |-> "Undefined", ok |-> FALSE]
    /\ heap # <<>>

\* the Number keys the index claims range over: negative, zero, in and out
\* of range, non-integral, NaN and infinite
IndexKeys == {Number(f) : f \in NumPool \cup {<<-2, 1>>, <<3, 2>>, <<3, 1>>, FNeg(INFINITY)}}

\* C11: on every Array, for every Number key that is not a non-negative
\* integer smaller than the element count (negative, non-integral, out of
\* range, NaN, infinite), get_prop faults and returns no value, and set_prop
\* faults and leaves the heap, the array contents included, as it was.
C11_ArrayIndexFaults ==
    \A self \in ArrayHandles(heap) :
        \A name \in IndexKeys \ Indices(heap, self) : \A x \in StoredValues(heap) :
            /\ ~get_prop(heap, self, name).ok
            /\ ~set_prop(heap, self, name, x).ok
            /\ set_prop(heap, self, name, x).heap = heap

PlainHandles(h) == {o \in Handles(h) : h[o.v].subtype = "RegularObject"}

\* keys of three variants: String("1") and Number(1) name the same property,
\* every handle the property "[object Object]"
PlainKeys == {String("p"), String("1"), Number(<<1, 1>>), Object(1)}

\* the names in the table of object id, and one that no operation writes
Names(h, id) == {String(n) : n \in DOMAIN h[id].properties \cup {"q"}}

\* C20: on every plain object, keys being the property names to_js_string
\* gives them: get_prop of a name not in the table returns Undefined and
\* get_prop never faults; set_prop(k, x) never faults and a following
\* get_prop(k) returns x, whether k was absent or present, and after a second
\* set_prop(k, y) it returns y; set_prop(k, x) leaves what get_prop returns
\* for every other name, and the subtype of the object, as they were.
C20_PlainObject ==
    \A self \in PlainHandles(heap) :
        /\ \A k \in PlainKeys \cup Names(heap, self.v) :
              LET g == get_prop(heap, self, k) IN
              /\ g.ok
              /\ to_js_string(k) \notin DOMAIN heap[self.v].properties => g.val = Undefined
        /\ \A k \in PlainKeys : \A x \in {Number(<<1, 2>>), self} :
              LET w == set_prop(heap, self, k, x)
                  w2 == set_prop(w.heap, self, k, Null)
              IN  /\ w.ok /\ w2.ok
                  /\ get_prop(w.heap, self, k).val = x
                  /\ get_prop(w2.heap, self, k).val = Null
                  /\ w.heap[self.v].subtype = "RegularObject"
                  /\ \A j \in Names(heap, self.v) \ {String(to_js_string(k))} :
                        get_prop(w.heap, self, j).val = get_prop(heap, self, j).val

C20_Witness ==
    /\ last = [op |-> "set_prop", on |-> "RegularObject", ok |-> TRUE]
    /\ \E self \in PlainHandles(heap) :
          /\ "p" \in DOMAIN heap[self.v].properties
          /\ heap[self.v].properties["p"] = self

(***************************************************************************)
(* Properties of the operators, over every operand SpecOps draws           *)
(***************************************************************************)
Applied(ops) == phase = "ops" /\ last.op \in ops

\* C12: add, sub, mult, divide and less return a value exactly when both
\* operands are Number, and fault on every other pairing; the value is the
\* f64 operation on the two operands as given (a Number, or a Boolean for
\* less), never a String and never the result of coercing an operand.
C12_NumbersOnly ==
    Applied({"add", "sub", "mult", "divide", "less"}) =>
        LET a == last.self
            b == last.args[1]
        IN  /\ last.ok <=> (a.t = "Number" /\ b.t = "Number")
            /\ ~last.ok => status = "panicked"
            /\ last.ok =>
                  last.val = CASE last.op = "add" -> Number(FAdd(a.v, b.v))
                               [] last.op = "sub" -> Number(FSub(a.v, b.v))
                               [] last.op = "mult" -> Number(FMul(a.v, b.v))
                               [] last.op = "divide" -> Number(FDiv(a.v, b.v))
                               [] last.op = "less" -> Boolean(FLess(a.v, b.v))

C12_Witness ==
    /\ Applied({"add"})
    /\ last.self = String("1")
    /\ last.args = <<Number(<<1, 1>>)>>
    /\ status = "panicked"

\* C13: call returns a value only on an Object of subtype Function, and
\* what it returns, or the fault it ends in, is that of the function applied
\* to the arguments (console.log answers Undefined for any arguments,
\* Math.sqrt the root of a Number); on every other receiver (Null, Undefined,
\* Boolean, Number, String, plain object, Array) it faults and leaves the
\* heap as it was.
C13_CallOnlyFunctions ==
    Applied({"call"}) =>
        LET self == last.self IN
        /\ heap \in OpsHeaps
        /\ IF self.t = "Object" /\ heap[self.v].subtype = "Function"
           THEN LET r == NativeFunction(heap, heap[self.v].func, last.args) IN
                /\ last.ok = r.ok
                /\ last.val = r.val
                /\ self.v = ConsoleLogId => (last.ok /\ last.val = Undefined)
                /\ (self.v = MathSqrtId /\ last.args = <<Number(<<4, 1>>)>>) =>
                        last.val = Number(<<2, 1>>)
           ELSE ~last.ok /\ status = "panicked"

C13_Witness ==
    /\ Applied({"call"})
    /\ last.self = Object(MathSqrtId)
    /\ last.args = <<Number(<<1, 4>>)>>
    /\ last.ok
    /\ last.val = Number(<<1, 2>>)

\* C14: truthy is false for Undefined and Null, b for Boolean(b), "n is not
\* zero" for Number(n), true for every Object and, for a String, true
\* exactly when the string is not empty; falsy is the negation of truthy.
C14_Truthy ==
    Applied({"truthy", "falsy"}) =>
        LET self == last.self
            expected == CASE self.t \in {"Undefined", "Null"} -> FALSE
                          [] self.t = "Boolean" -> self.v
                          [] self.t = "Number" -> ~FEq(self.v, <<0, 1>>)
                          [] self.t = "String" -> self.v # ""
                          [] self.t = "Object" -> TRUE
        IN  /\ last.ok
            /\ last.val = Bool(IF last.op = "truthy" THEN expected ELSE ~expected)
            /\ falsy(self) = ~truthy(self)

\* the f64 the claims expect of to_number
ExpectedNumber(v) ==
    CASE v.t = "Undefined" -> NAN
      [] v.t = "Null" -> <<0, 1>>
      [] v.t = "Boolean" -> IF v.v THEN <<1, 1>> ELSE <<0, 1>>
      [] v.t = "Number" -> v.v
      [] v.t = "String" ->
            CASE v.v = "1" -> <<1, 1>>
              [] v.v = "0.25" -> <<1, 4>>
              [] v.v = "-1" -> <<-1, 1>>
              [] v.v = "inf" -> INFINITY
              [] OTHER -> NAN
      [] v.t = "Object" -> NAN

\* C19: for every value v the function the lowering names for unary plus
\* returns to_number(v) and the one it names for unary minus returns the
\* Number of the opposite sign, neither faulting; to_number maps Undefined to
\* NaN, Null to 0, true and false to 1 and 0, a Number to itself, a String to
\* the f64 it parses to or to NaN when it does not parse, every Object to NaN.
C19_UnaryOperators ==
    Applied({"to_number", "plus", "negate"}) =>
        LET n == ExpectedNumber(last.self) IN
        /\ last.ok
        /\ status = "done"
        /\ last.val = Number(IF last.op = "negate" THEN FNeg(n) ELSE n)
        /\ unary_operator_to_rust_text("UnaryPlus") = "plus"
        /\ unary_operator_to_rust_text("UnaryNegation") = "negate"

C19_Witness ==
    /\ Applied({"negate"})
    /\ last.self = String("0.25")
    /\ last.val = Number(<<-1, 4>>)

(***************************************************************************)
(* Properties of the lowering and of the emitted main(), over every        *)
(* program of the families                                                 *)
(***************************************************************************)
\* the value main() holds under name
ValueOf(bindings, name) == bindings[Lookup(bindings, name)].val

Bound(bindings, name) ==
    Lookup(bindings, name) # 0 /\ bindings[Lookup(bindings, name)].state = "init"

Event(method, self, args, ret) ==
    [m |-> method, self |-> self, args |-> args, ok |-> TRUE, ret |-> ret]

\* the program was lowered, built and run to the end of main()
Finished == phase = "exec" /\ status = "done"

\* the lowering panicked, rustc refused the text, or the run panicked
Failed == phase = "aborted" \/ status \in {"rejected", "panicked"}

\* the f64 operation of a binary operator, on the doubles themselves
Direct(operator, a, b) ==
    CASE operator = "Addition" -> FAdd(a, b)
      [] operator = "Subtraction" -> FSub(a, b)
      [] operator = "Multiplication" -> FMul(a, b)
      [] operator = "Division" -> FDiv(a, b)

\* C1: for Number operands a and b, the lowered a+b, a-b, a*b and a/b run to
\* Number(a+b), Number(a-b), Number(a*b) and Number(a/b): the emitted call is
\* the Number operation of that operator with a as receiver and b as
\* argument, whether the operands are written in place or named.
C1_BinaryOperators ==
    scenario.family = "binary" =>
        LET a == Number(Operands[scenario.i].val)
            b == Number(Operands[scenario.j].val)
            r == Number(Direct(scenario.op, a.v, b.v))
            method == CASE scenario.op = "Addition" -> "add"
                        [] scenario.op = "Subtraction" -> "sub"
                        [] scenario.op = "Multiplication" -> "mult"
                        [] scenario.op = "Division" -> "divide"
        IN  /\ ~Failed
            /\ Finished =>
                  /\ Bound(env, "r") /\ ValueOf(env, "r") = r
                  /\ trace[Len(trace)] =
                        Event(method, a, <<b>>, r)

C1_Witness ==
    /\ Finished
    /\ scenario.family = "binary" /\ scenario.op = "Subtraction" /\ ~scenario.flag
    /\ ValueOf(env, "a") = Number(<<2, 1>>)
    /\ ValueOf(env, "b") = Number(<<1, 2>>)
    /\ ValueOf(env, "r") = Number(<<3, 2>>)

RECURSIVE Turns(_, _, _)
\* the calls of the loop from the test of turn i on, sum being the total so
\* far: less, then the body's add, then the update's add, until less is false
Turns(i, n, sum) ==
    IF i >= n THEN <<Event("less", Number(<<i, 1>>), <<Number(<<n, 1>>)>>, Boolean(FALSE))>>
    ELSE << Event("less", Number(<<i, 1>>), <<Number(<<n, 1>>)>>, Boolean(TRUE)),
            Event("add", Number(<<sum, 1>>), <<Number(<<i, 1>>)>>, Number(<<sum + i, 1>>)),
            Event("add", Number(<<i, 1>>), <<Number(<<1, 1>>)>>, Number(<<i + 1, 1>>)) >>
         \o Turns(i + 1, n, sum + i)

RECURSIVE SumBelow(_)
SumBelow(n) == IF n <= 0 THEN 0 ELSE (n - 1) + SumBelow(n - 1)

\* the calls of the whole for statement: those of its init, once, then the turns
ForCalls(n, postfix) ==
    (IF postfix THEN <<>>
     ELSE <<Event("mult", Number(<<0, 1>>), <<Number(<<0, 1>>)>>, Number(<<0, 1>>))>>)
        \o Turns(0, n, 0)

\* C5: the lowered for (init; test; update) body runs init once, then test,
\* body, update in that order again and again, and leaves at the first falsy
\* test, before the body and the update of that turn; with sum = 0 before,
\* for (let i = 0; i < n; i++) { sum = sum + i; } runs the body for
\* i = 0 .. n-1 in order, terminates, and leaves sum = 0 + 1 + ... + (n-1).
C5_ForLoop ==
    scenario.family = "for" =>
        /\ ~Failed
        /\ (phase = "exec" /\ status = "running" /\ control # <<>>) =>
              Exec(Head(control), St(env, heap, trace)).flow = "ok"
        /\ (phase = "exec" /\ control = <<>>) =>
              /\ trace = ForCalls(scenario.i, scenario.flag)
              /\ Bound(env, "sum")
              /\ ValueOf(env, "sum") = Number(<<SumBelow(scenario.i), 1>>)
              /\ ValueOf(env, "i") = Number(<<scenario.i, 1>>)

C5_Witness ==
    /\ Finished
    /\ scenario.family = "for" /\ scenario.i = 3 /\ scenario.flag
    /\ ValueOf(env, "sum") = Number(<<3, 1>>)
    /\ Len(trace) = 10

SupportedStatements ==
    {"FunctionDeclaration", "VariableDeclaration", "ForStatement", "BlockStatement",
     "ExpressionStatement", "ReturnStatement"}

RECURSIVE HasUnsupported(_)
\* the statement is of an unsupported kind, or holds one in its block, in
\* its for body or in its function body, at any depth
HasUnsupported(statement) ==
    CASE statement.type \notin SupportedStatements -> TRUE
      [] statement.type \in {"BlockStatement", "FunctionDeclaration"} ->
            \E k \in 1..Len(statement.body) : HasUnsupported(statement.body[k])
      [] statement.type = "ForStatement" -> HasUnsupported(statement.body)
      [] OTHER -> FALSE

\* C7: when the program holds, at the top level or at any depth (in a block,
\* a for body or a function body), a statement of a kind other than function
\* declaration, variable declaration, for, block, expression statement and
\* return, the lowering never gets past that statement and never returns a
\* text: no prelude, no partial main(); once it has reached the statement it
\* has aborted.
C7_UnsupportedAborts ==
    \A k \in 1..Len(program.body) :
        HasUnsupported(program.body[k]) =>
            /\ output = NoOutput
            /\ phase \in {"lowering", "aborted"}
            /\ pos <= k
            /\ phase = "aborted" => result = NoResult

C7_Witness ==
    /\ phase = "aborted" /\ pos = 3
    /\ scenario.family = "unsupported" /\ scenario.name = "function" /\ scenario.flag
    /\ HasUnsupported(program.body[3])
    /\ output = NoOutput

\* C8: an Array, or a plain object, passed as a call argument is the caller's
\* own object: after the callee's set_prop on its parameter, the caller's
\* get_prop on its own handle returns the value the callee wrote, and both
\* handles name one allocation.
C8_SharedHandles ==
    scenario.family = "shared" =>
        /\ ~Failed
        /\ Finished =>
              LET a == ValueOf(env, "a")
                  written == Number(<<scenario.i, 1>>)
                  key == IF scenario.name = "Array" THEN Number(<<scenario.j, 1>>)
                         ELSE String("q")
              IN  /\ a.t = "Object" /\ heap[a.v].subtype = scenario.name
                  /\ ValueOf(env, "r") = written
                  /\ get_prop(heap, a, key) = Ok(written, heap)
                  /\ \E e \in 1..Len(trace) :
                        /\ trace[e].m = "set_prop"
                        /\ trace[e].self = a
                        /\ trace[e].args = <<key, written>>
                  /\ Len(heap) = Len(BuiltinHeap) + 1

C8_Witness ==
    /\ Finished
    /\ scenario.family = "shared" /\ scenario.name = "Array" /\ scenario.i = 2 /\ scenario.j = 1
    /\ heap[ValueOf(env, "a").v].array = <<Number(<<1, 2>>), Number(<<2, 1>>)>>
    /\ ValueOf(env, "r") = Number(<<2, 1>>)

\* C9: whatever construct the lowering accepts, every method and function
\* of the runtime named in the text it returns is one the prelude defines.
C9_NamesDefined == output.returned => Resolves(output.text.main)

\* C10: every literal lowers, without aborting, to the construction of the
\* matching variant: null to Null, a boolean to Boolean of it, a number to
\* Number of it, a string to String of its content.
C10_Literals ==
    scenario.family = "literal" =>
        /\ ~Failed
        /\ Finished =>
              ValueOf(env, "r") =
                  CASE scenario.op = "NumericLiteral" ->
                          Number(IF scenario.flag THEN <<1, 2>> ELSE <<scenario.i, 1>>)
                    [] scenario.op = "StringLiteral" -> String(IF scenario.flag THEN "" ELSE "a")
                    [] scenario.op = "BooleanLiteral" -> Boolean(scenario.flag)
                    [] scenario.op = "NullLiteral" -> Null
\* C15: the built-in bindings are read-only once initialized: whatever a
\* generated program does, assignments through process.argv, console.log
\* and Math.sqrt included, the objects behind the built-ins hold what they
\* held at initialization, and a later read through a built-in accessor
\* returns what the first read returned.
C15_BuiltinsReadOnly ==
    phase = "exec" =>
        /\ \A id \in 1..Len(BuiltinHeap) : heap[id] = BuiltinHeap[id]
        /\ (scenario.family = "builtin" /\ Bound(env, "r")) =>
                ValueOf(env, "r") = ValueOf(env, "first")

\* the pairings of target kind and operator the claim lists
SupportedPairings ==
    ({"AssignmentTargetIdentifier"}
        \X {"Assign", "Addition", "Subtraction", "Multiplication", "Division"})
    \cup ({"StaticMemberExpression"} \X {"Assign", "Addition"})
    \cup ({"ComputedMemberExpression"} \X {"Assign"})

\* C16: the lowering of an assignment expression whose operands lower
\* succeeds (text is returned) exactly when the target is an identifier and
\* the operator is =, +=, -=, *= or /=, or the target is a static member and
\* the operator is = or +=, or the target is a computed member and the
\* operator is =; with any other pairing of target kind and operator the
\* lowering aborts and returns nothing.
C16_AssignmentPairings ==
    (scenario.family = "assign" /\ phase # "lowering") =>
        IF <<scenario.name, scenario.op>> \in SupportedPairings
        THEN phase # "aborted" /\ output.returned
        ELSE phase = "aborted" /\ ~output.returned

C16_Witness ==
    /\ Finished
    /\ scenario.family = "assign"
    /\ scenario.name = "StaticMemberExpression" /\ scenario.op = "Addition"
    /\ get_prop(heap, ValueOf(env, "o"), String("p")).val = Number(<<3, 1>>)

\* the text of the arguments a, b of a call, the first n of them
ArgumentsText(n) == SubSeq(<<Cloned(RPath("a")), Cloned(RPath("b"))>>, 1, n)

\* C17: a call whose callee, looked at through its parentheses, is neither
\* an identifier nor a function or arrow literal (a static or computed
\* member, a call, an array, this, a chain, anything else) lowers to the
\* runtime's call on the value of the callee with the slice of the
\* arguments; a call whose callee is an identifier lowers to a direct call
\* of that binding; both carry one argument text per source argument, in
\* source order.
C17_CallForms ==
    (/\ scenario.family = "call"
     /\ phase # "lowering"
     /\ scenario.name \notin {"FunctionExpression", "ArrowFunctionExpression"}) =>
        /\ output.returned
        /\ LET main == output.text.main
               e == main[Len(main)].init[1]
           IN  IF scenario.name = "Identifier"
               THEN /\ e.k = "call"
                    /\ StripParens(e.callee) = RPath("f")
                    /\ e.args = ArgumentsText(scenario.i)
               ELSE /\ e.k = "mcall"
                    /\ e.method = "call"
                    /\ e.recv.k = "paren"
                    /\ e.args = <<RSliceRef(ArgumentsText(scenario.i))>>

\* C18: a function whose body executes `return e;` returns the value of e
\* to its caller; one whose body executes a bare `return;` returns
\* Undefined, as one whose body runs off its end does: the program is
\* lowered, built and run, and the call yields that value.
C18_Return ==
    scenario.family = "return" =>
        /\ ~Failed
        /\ Finished =>
              ValueOf(env, "r") = IF scenario.name = "argument" THEN Number(<<scenario.i, 1>>)
                                  ELSE Undefined

\* the objects the property table and the elements of object id refer to
References(h, id) ==
    {h[id].properties[k].v :
        k \in {n \in DOMAIN h[id].properties : h[id].properties[n].t = "Object"}}
    \cup {h[id].array[j].v : j \in {n \in 1..Len(h[id].array) : h[id].array[n].t = "Object"}}

\* the objects reachable from the objects ids, these included
RECURSIVE Reachable(_, _)
Reachable(h, ids) ==
    LET more == ids \cup UNION {References(h, id) : id \in ids} IN
    IF more = ids THEN ids ELSE Reachable(h, more)

\* the objects that are reachable from themselves
SelfReferential(h) == {id \in 1..Len(h) : id \in Reachable(h, References(h, id))}

\* C21: whatever the lowered program has executed (object and array
\* literals, set_prop writes such as o.p = o, a[0] = a, o.p.q = o or
\* o.p = f(o)), no object of the heap is reachable from itself through
\* property-table or array-element references.
C21_NoCycles == phase = "exec" => SelfReferential(heap) = {}

\* the calls of a method in the trace, in order
CallsOf(calls, method) ==
    LET Is(event) == event.m = method IN SelectSeq(calls, Is)

\* C22: in the lowered o.p += v (o being an identifier, a[k++] or g(), v an
\* identifier or v++), the receiver and the value are each evaluated once:
\* k and v are incremented once, g builds one object, p is read once and
\* written once, on the same object, and the value written is the old value
\* of p plus v.
C22_CompoundOnce ==
    scenario.family = "compound" =>
        /\ ~Failed
        /\ Finished =>
              LET reads == CallsOf(trace, "get_prop")
                  writes == CallsOf(trace, "set_prop")
                  p == String("p")
              IN  /\ Len(writes) = 1
                  /\ writes[1].args = <<p, Number(<<scenario.i + scenario.j, 1>>)>>
                  /\ Len(SelectSeq(reads, LAMBDA event : event.args = <<p>>)) = 1
                  /\ \A n \in 1..Len(reads) :
                        reads[n].args = <<p>> => reads[n].self = writes[1].self
                  /\ get_prop(heap, writes[1].self, p).val = writes[1].args[2]
                  /\ scenario.flag => ValueOf(env, "v") = Number(<<scenario.j + 1, 1>>)
                  /\ scenario.name = "ComputedMemberExpression" =>
                        ValueOf(env, "k") = Number(<<1, 1>>)
                  /\ scenario.name = "CallExpression" =>
                        Len(CallsOf(trace, "from_entries")) = 1

\* C23: after for (let i = 0; i < n; i++) {} the identifier i is what it was
\* before the loop: with an outer let i = outer, the statement let r = i
\* that follows the loop binds r to outer; with no outer i, the i after the
\* loop names nothing and r is never bound.
C23_ForScope ==
    scenario.family = "scope" =>
        IF scenario.flag
        THEN /\ ~Failed
             /\ Finished =>
                   /\ Bound(env, "r")
                   /\ ValueOf(env, "r") = Number(<<scenario.i + 1 + scenario.j, 1>>)
        ELSE ~Bound(env, "r") /\ ~Finished

====
